---- MODULE Spec2Model ----
(***************************************************************************)
(* State-machine model of task2/task2.py, the CGMES EQ-profile analyzer.   *)
(*                                                                         *)
(* main() parses one XML file and runs six analyses in sequence inside one *)
(* try/except.  Every analysis is one action; an exception raised inside   *)
(* an analysis is caught by main, which prints "Error during analysis" and *)
(* runs nothing more.                                                      *)
(*                                                                         *)
(* Documents: the file is a flat sequence of elements below rdf:RDF.  An   *)
(* element has a type (local tag name), a map from child tag to the        *)
(* child's text and a map from child tag to the child's rdf:resource       *)
(* attribute.  A child that is absent, and a child with empty text, both   *)
(* read as None, as in xml.etree.  All texts are strings; float() and      *)
(* int() are the tables FloatOf and IntOf over the texts the model uses,   *)
(* and the string operations of the code (split, in, lower) are tables     *)
(* over the same universe.  Identifiers are tokens of one fixed shape (as  *)
(* CIM uuids are), so that one identifier is never a proper substring of   *)
(* another, and an element has at most one mRID child.                     *)
(***************************************************************************)
EXTENDS Integers, Sequences, FiniteSets, TLC

VARIABLES file, root, pc, console, q1, q2, q3, q4, q5, q6, task1

vars == <<file, root, pc, console, q1, q2, q3, q4, q5, q6, task1>>

(***************************************************************************)
(* Bounds of the model.                                                    *)
(***************************************************************************)
MaxEnds == 2

MaxElems == 2

MaxUnits == 2

(***************************************************************************)
(* Python values.                                                          *)
(***************************************************************************)
None == "<None>"

NoExc == "no exception"

transformer_id == "2184f365-8cd5-4b5d-8a28-9d68603bb6a4"

line_id == "e8acf6b6-99cb-45ad-b8dc-16c7866a4ddc"

generator_name == "NL-G1"

HighSideThreshold == 100

(***************************************************************************)
(* float(text) and int(text) on the texts of the model.  A text outside    *)
(* the table raises ValueError; None raises TypeError.  "2.0" is a float   *)
(* text and no int text.                                                   *)
(***************************************************************************)
IntOf ==
    ("0" :> 0) @@ ("1" :> 1) @@ ("2" :> 2) @@ ("3" :> 3) @@
    ("100" :> 100) @@ ("101" :> 101) @@ ("150" :> 150) @@
    ("398" :> 398) @@ ("399" :> 399) @@ ("400" :> 400) @@
    ("401" :> 401) @@ ("402" :> 402) @@
    ("900" :> 900) @@ ("1000" :> 1000) @@ ("1100" :> 1100)

FloatOf == IntOf @@ ("2.0" :> 2)

ConvExc(text, table) ==
    IF text = None THEN "TypeError"
    ELSE IF text \notin DOMAIN table THEN "ValueError"
    ELSE NoExc

(***************************************************************************)
(* rdf:resource strings: prefix, the identifier or enumeration literal     *)
(* after it, and the result of split('#')[-1].                             *)
(***************************************************************************)
ResourceFacts ==
    ("#_2184f365-8cd5-4b5d-8a28-9d68603bb6a4" :>
        [pre |-> "#_", body |-> transformer_id,
         h |-> "_2184f365-8cd5-4b5d-8a28-9d68603bb6a4"]) @@
    ("#2184f365-8cd5-4b5d-8a28-9d68603bb6a4" :>
        [pre |-> "#", body |-> transformer_id, h |-> transformer_id]) @@
    ("#_2184f365-8cd5-4b5d-8a28-9d68603bb6a4-b" :>
        [pre |-> "#_", body |-> "2184f365-8cd5-4b5d-8a28-9d68603bb6a4-b",
         h |-> "_2184f365-8cd5-4b5d-8a28-9d68603bb6a4-b"]) @@
    ("#_tr-other" :> [pre |-> "#_", body |-> "tr-other", h |-> "_tr-other"]) @@
    ("#_e8acf6b6-99cb-45ad-b8dc-16c7866a4ddc" :>
        [pre |-> "#_", body |-> line_id,
         h |-> "_e8acf6b6-99cb-45ad-b8dc-16c7866a4ddc"]) @@
    ("#_line-other" :> [pre |-> "#_", body |-> "line-other", h |-> "_line-other"]) @@
    ("#_gu-1" :> [pre |-> "#_", body |-> "gu-1", h |-> "_gu-1"]) @@
    ("#_gu-2" :> [pre |-> "#_", body |-> "gu-2", h |-> "_gu-2"]) @@
    ("#_gu-missing" :> [pre |-> "#_", body |-> "gu-missing", h |-> "_gu-missing"]) @@
    ("#_rc-1" :> [pre |-> "#_", body |-> "rc-1", h |-> "_rc-1"]) @@
    ("#_rc-missing" :> [pre |-> "#_", body |-> "rc-missing", h |-> "_rc-missing"]) @@
    ("#_term-1" :> [pre |-> "#_", body |-> "term-1", h |-> "_term-1"]) @@
    ("#_term-2" :> [pre |-> "#_", body |-> "term-2", h |-> "_term-2"]) @@
    ("#_ls-1" :> [pre |-> "#_", body |-> "ls-1", h |-> "_ls-1"]) @@
    ("#_ls-2" :> [pre |-> "#_", body |-> "ls-2", h |-> "_ls-2"]) @@
    ("#_lt-patl" :> [pre |-> "#_", body |-> "lt-patl", h |-> "_lt-patl"]) @@
    ("#_lt-tatl" :> [pre |-> "#_", body |-> "lt-tatl", h |-> "_lt-tatl"]) @@
    ("#_lt-other" :> [pre |-> "#_", body |-> "lt-other", h |-> "_lt-other"]) @@
    ("#_lt-missing" :> [pre |-> "#_", body |-> "lt-missing", h |-> "_lt-missing"]) @@
    ("#_bv-1" :> [pre |-> "#_", body |-> "bv-1", h |-> "_bv-1"]) @@
    ("#_bv-missing" :> [pre |-> "#_", body |-> "bv-missing", h |-> "_bv-missing"]) @@
    ("#GeneratorControlSource.onAGC" :>
        [pre |-> "#", body |-> "GeneratorControlSource.onAGC",
         h |-> "GeneratorControlSource.onAGC"]) @@
    ("#GeneratorControlSource.offAGC" :>
        [pre |-> "#", body |-> "GeneratorControlSource.offAGC",
         h |-> "GeneratorControlSource.offAGC"]) @@
    ("#GeneratorControlSource.plantControl" :>
        [pre |-> "#", body |-> "GeneratorControlSource.plantControl",
         h |-> "GeneratorControlSource.plantControl"]) @@
    ("#GeneratorControlSource.Slack" :>
        [pre |-> "#", body |-> "GeneratorControlSource.Slack",
         h |-> "GeneratorControlSource.Slack"]) @@
    ("#RegulatingControlModeKind.voltage" :>
        [pre |-> "#", body |-> "RegulatingControlModeKind.voltage",
         h |-> "RegulatingControlModeKind.voltage"]) @@
    ("http://iec.ch/TC57/CIM100#RegulatingControlModeKind.voltage" :>
        [pre |-> "http://iec.ch/TC57/CIM100#", body |-> "RegulatingControlModeKind.voltage",
         h |-> "RegulatingControlModeKind.voltage"]) @@
    ("#RegulatingControlModeKind.reactivePower" :>
        [pre |-> "#", body |-> "RegulatingControlModeKind.reactivePower",
         h |-> "RegulatingControlModeKind.reactivePower"]) @@
    ("#WindingConnection.Y" :>
        [pre |-> "#", body |-> "WindingConnection.Y", h |-> "WindingConnection.Y"])

\* resource.split('#_')[-1]
SplitHashUnderscore(resource) ==
    IF ResourceFacts[resource].pre = "#_" THEN ResourceFacts[resource].body
    ELSE resource

\* resource.split('#')[-1]
SplitHash(resource) == ResourceFacts[resource].h

(***************************************************************************)
(* needle in haystack, for the needles the code searches for.  A resource  *)
(* string contains the identifier after its prefix, and every identifier   *)
(* that one extends; the other haystacks are names and control-source      *)
(* literals.                                                               *)
(***************************************************************************)
Contained ==
    ("#_2184f365-8cd5-4b5d-8a28-9d68603bb6a4-b" :>
        {transformer_id, "2184f365-8cd5-4b5d-8a28-9d68603bb6a4-b"}) @@
    ("PATL" :> {"PATL"}) @@ ("TATL" :> {"TATL"}) @@
    ("PATL-TATL" :> {"PATL", "TATL"}) @@ ("patl" :> {}) @@
    ("HighVoltage" :> {}) @@
    ("GeneratorControlSource.onAGC" :> {"onAGC"}) @@
    ("GeneratorControlSource.offAGC" :> {}) @@
    ("GeneratorControlSource.plantControl" :> {}) @@
    ("GeneratorControlSource.Slack" :> {}) @@
    ("Not specified" :> {})

In(needle, haystack) ==
    IF haystack \in DOMAIN Contained
    THEN needle \in Contained[haystack]
    ELSE needle = ResourceFacts[haystack].body

\* text.lower()
Lower ==
    ("GeneratorControlSource.onAGC" :> "generatorcontrolsource.onagc") @@
    ("GeneratorControlSource.offAGC" :> "generatorcontrolsource.offagc") @@
    ("GeneratorControlSource.plantControl" :> "generatorcontrolsource.plantcontrol") @@
    ("GeneratorControlSource.Slack" :> "generatorcontrolsource.slack") @@
    ("Not specified" :> "not specified")

ContainedLower ==
    ("generatorcontrolsource.onagc" :> {}) @@
    ("generatorcontrolsource.offagc" :> {}) @@
    ("generatorcontrolsource.plantcontrol" :> {}) @@
    ("generatorcontrolsource.slack" :> {"slack"}) @@
    ("not specified" :> {})

(***************************************************************************)
(* Elements and their accessors.                                           *)
(***************************************************************************)
Empty == [t \in {} |-> None]

Element(type, text, res) == [type |-> type, text |-> text, res |-> res]

get_element_text(element, tag_name) ==
    IF tag_name \in DOMAIN element.text THEN element.text[tag_name] ELSE None

get_element_resource(element, tag_name) ==
    IF tag_name \in DOMAIN element.res THEN element.res[tag_name] ELSE None

\* root.findall('.//cim:<type>'): the elements of the type, in document order
findall(tree, type) == SelectSeq(tree, LAMBDA e : e.type = type)

\* the indices i of seq with Test(seq[i]), and the least of them (0 if none)
First(seq, Test(_)) ==
    LET hits == {i \in 1..Len(seq) : Test(seq[i])}
    IN  IF hits = {} THEN 0 ELSE CHOOSE i \in hits : \A j \in hits : i <= j

SeqsUpTo(S, n) == UNION {[1..k -> S] : k \in 0..n}

(***************************************************************************)
(* parse_cgmes_file: the tree, or None when ET.parse raises.               *)
(***************************************************************************)
NoRoot == [isNone |-> TRUE, elems |-> <<>>]

\* a loader that hands the tree on although ET.parse raised
parse_ignoring_errors(f) == [isNone |-> FALSE, elems |-> f.elems]

parse_cgmes_file(f) ==
    IF f.wellFormed THEN [isNone |-> FALSE, elems |-> f.elems] ELSE NoRoot

(***************************************************************************)
(* analyze_question_3: winding voltages of the transformer transformer_id. *)
(***************************************************************************)
IsTransformer(e) == get_element_text(e, "IdentifiedObject.mRID") = transformer_id

EndMatches(tf_end) ==
    LET tf_ref == get_element_resource(tf_end, "PowerTransformerEnd.PowerTransformer")
    IN  tf_ref # None /\ In(transformer_id, tf_ref)

\* the exception raised while the dict of one matching end is built
WindingExc(tf_end) ==
    LET e1 == ConvExc(get_element_text(tf_end, "TransformerEnd.endNumber"), IntOf)
        e2 == ConvExc(get_element_text(tf_end, "PowerTransformerEnd.ratedU"), FloatOf)
        e3 == ConvExc(get_element_text(tf_end, "PowerTransformerEnd.ratedS"), FloatOf)
    IN  IF e1 # NoExc THEN e1 ELSE IF e2 # NoExc THEN e2 ELSE e3

Winding(tf_end) ==
    LET connection == get_element_resource(tf_end, "PowerTransformerEnd.connectionKind")
    IN  [end  |-> IntOf[get_element_text(tf_end, "TransformerEnd.endNumber")],
         u    |-> FloatOf[get_element_text(tf_end, "PowerTransformerEnd.ratedU")],
         s    |-> FloatOf[get_element_text(tf_end, "PowerTransformerEnd.ratedS")],
         conn |-> IF connection # None THEN SplitHash(connection) ELSE "N/A"]

\* list.sort(key=lambda x: x['end']): stable, ascending
RECURSIVE InsertByEnd(_, _)
InsertByEnd(sorted, w) ==
    IF sorted = <<>> THEN <<w>>
    ELSE IF sorted[Len(sorted)].end <= w.end THEN Append(sorted, w)
    ELSE Append(InsertByEnd(SubSeq(sorted, 1, Len(sorted) - 1), w), sorted[Len(sorted)])

RECURSIVE SortByEnd(_)
SortByEnd(windings) ==
    IF windings = <<>> THEN <<>>
    ELSE InsertByEnd(SortByEnd(SubSeq(windings, 1, Len(windings) - 1)),
                     windings[Len(windings)])

Side(u) == IF u > HighSideThreshold THEN "YG" ELSE "AG"

Row(w) == [side |-> Side(w.u), end |-> w.end, u |-> w.u, s |-> w.s, conn |-> w.conn]

\* windings[0]['u'] / windings[1]['u'], kept as the fraction and as the
\* two-decimal figure printed (in hundredths)
Ratio(windings) ==
    [num |-> windings[1].u, den |-> windings[2].u,
     hundredths |-> (200 * windings[1].u + windings[2].u) \div (2 * windings[2].u)]

NoRatio == [num |-> 0, den |-> 0, hundredths |-> 0]

Q3NotRun ==
    [ran |-> FALSE, found |-> FALSE, rows |-> <<>>, hasRatio |-> FALSE,
     ratio |-> NoRatio, exc |-> NoExc]

analyze_question_3(tree) ==
    LET transformers == findall(tree, "PowerTransformer")
        found    == First(transformers, IsTransformer) # 0
        matched  == SelectSeq(findall(tree, "PowerTransformerEnd"), EndMatches)
        bad      == First(matched, LAMBDA e : WindingExc(e) # NoExc)
        windings == SortByEnd([i \in 1..Len(matched) |-> Winding(matched[i])])
        ran      == [Q3NotRun EXCEPT !.ran = TRUE]
    IN  IF ~found THEN ran
        ELSE IF bad # 0
        THEN [ran EXCEPT !.found = TRUE, !.exc = WindingExc(matched[bad])]
        ELSE LET listed == [ran EXCEPT !.found = TRUE,
                                       !.rows = [i \in 1..Len(windings) |-> Row(windings[i])]]
             IN  IF Len(windings) < 2 THEN listed
                 ELSE IF windings[2].u = 0
                 THEN [listed EXCEPT !.exc = "ZeroDivisionError"]
                 ELSE [listed EXCEPT !.hasRatio = TRUE, !.ratio = Ratio(windings)]

(***************************************************************************)
(* analyze_question_1: generator capacity and power factors.               *)
(***************************************************************************)
\* the exception raised while the dict entry of one generating unit is built
UnitExc(gen_unit) ==
    LET max_p     == get_element_text(gen_unit, "GeneratingUnit.maxOperatingP")
        min_p     == get_element_text(gen_unit, "GeneratingUnit.minOperatingP")
        nominal_p == get_element_text(gen_unit, "GeneratingUnit.nominalP")
    IN  IF max_p = None THEN NoExc
        ELSE IF max_p \notin DOMAIN FloatOf THEN "ValueError"
        ELSE IF min_p # None /\ min_p \notin DOMAIN FloatOf THEN "ValueError"
        ELSE IF nominal_p # None /\ nominal_p \notin DOMAIN FloatOf THEN "ValueError"
        ELSE NoExc

UnitEntry(gen_unit) ==
    LET min_p     == get_element_text(gen_unit, "GeneratingUnit.minOperatingP")
        nominal_p == get_element_text(gen_unit, "GeneratingUnit.nominalP")
    IN  [key       |-> get_element_text(gen_unit, "IdentifiedObject.mRID"),
         name      |-> get_element_text(gen_unit, "IdentifiedObject.name"),
         max_p     |-> FloatOf[get_element_text(gen_unit, "GeneratingUnit.maxOperatingP")],
         min_p     |-> IF min_p # None THEN FloatOf[min_p] ELSE 0,
         nominal_p |-> IF nominal_p # None THEN FloatOf[nominal_p] ELSE 0,
         has_pf    |-> FALSE, pf_none |-> FALSE, pf |-> 0,
         rated_s_none |-> FALSE, rated_s |-> 0]

\* d[key] = entry on an insertion-ordered dict kept as a sequence of entries
DictPut(d, entry) ==
    LET at == First(d, LAMBDA x : x.key = entry.key)
    IN  IF at = 0 THEN Append(d, entry) ELSE [d EXCEPT ![at] = entry]

HasMaxP(gen_unit) == get_element_text(gen_unit, "GeneratingUnit.maxOperatingP") # None

RECURSIVE GenUnits(_)
GenUnits(units) ==
    IF units = <<>> THEN <<>>
    ELSE LET before == GenUnits(SubSeq(units, 1, Len(units) - 1))
             last   == units[Len(units)]
         IN  IF HasMaxP(last) THEN DictPut(before, UnitEntry(last)) ELSE before

\* the total taken from the entries of the dict instead of from the units
RECURSIVE TableTotal(_)
TableTotal(entries) ==
    IF entries = <<>> THEN 0
    ELSE TableTotal(SubSeq(entries, 1, Len(entries) - 1)) + entries[Len(entries)].max_p

TotalOfEntries(units) == TableTotal(GenUnits(units))

RECURSIVE TotalCapacity(_)
TotalCapacity(units) ==
    IF units = <<>> THEN 0
    ELSE LET last == units[Len(units)]
         IN  TotalCapacity(SubSeq(units, 1, Len(units) - 1))
             + (IF HasMaxP(last)
                THEN FloatOf[get_element_text(last, "GeneratingUnit.maxOperatingP")]
                ELSE 0)

\* whether the machine's GeneratingUnit reference hits a key of gen_units
MachineHits(sync_machine, gen_units) ==
    LET gen_unit_ref == get_element_resource(sync_machine, "RotatingMachine.GeneratingUnit")
    IN  /\ gen_unit_ref # None
        /\ First(gen_units, LAMBDA x : x.key = SplitHashUnderscore(gen_unit_ref)) # 0

MachineExc(sync_machine, gen_units) ==
    LET pf      == get_element_text(sync_machine, "RotatingMachine.ratedPowerFactor")
        rated_s == get_element_text(sync_machine, "RotatingMachine.ratedS")
    IN  IF ~MachineHits(sync_machine, gen_units) THEN NoExc
        ELSE IF pf # None /\ pf \notin DOMAIN FloatOf THEN "ValueError"
        ELSE IF rated_s # None /\ rated_s \notin DOMAIN FloatOf THEN "ValueError"
        ELSE NoExc

MachineApply(sync_machine, gen_units) ==
    LET gen_unit_ref == get_element_resource(sync_machine, "RotatingMachine.GeneratingUnit")
        pf      == get_element_text(sync_machine, "RotatingMachine.ratedPowerFactor")
        rated_s == get_element_text(sync_machine, "RotatingMachine.ratedS")
        at      == First(gen_units, LAMBDA x : x.key = SplitHashUnderscore(gen_unit_ref))
    IN  IF ~MachineHits(sync_machine, gen_units) THEN gen_units
        ELSE [gen_units EXCEPT
                ![at].has_pf = TRUE,
                ![at].pf_none = (pf = None),
                ![at].pf = IF pf # None THEN FloatOf[pf] ELSE 0,
                ![at].rated_s_none = (rated_s = None),
                ![at].rated_s = IF rated_s # None THEN FloatOf[rated_s] ELSE 0]

RECURSIVE WithMachines(_, _)
WithMachines(machines, gen_units) ==
    IF machines = <<>> THEN gen_units
    ELSE MachineApply(machines[Len(machines)],
                      WithMachines(SubSeq(machines, 1, Len(machines) - 1), gen_units))

\* the exception raised while the table row of one dict entry is formatted
PrintExc1(data) ==
    IF data.name = None THEN "TypeError"
    ELSE IF data.has_pf /\ (data.pf_none \/ data.rated_s_none) THEN "TypeError"
    ELSE NoExc

Q1NotRun == [ran |-> FALSE, printed |-> FALSE, total |-> 0, rows |-> <<>>, exc |-> NoExc]

analyze_question_1(tree) ==
    LET units     == findall(tree, "GeneratingUnit")
        machines  == findall(tree, "SynchronousMachine")
        badUnit   == First(units, LAMBDA e : UnitExc(e) # NoExc)
        gen_units == GenUnits(units)
        badMach   == First(machines, LAMBDA m : MachineExc(m, gen_units) # NoExc)
        joined    == WithMachines(machines, gen_units)
        badRow    == First(joined, LAMBDA d : PrintExc1(d) # NoExc)
        ran       == [Q1NotRun EXCEPT !.ran = TRUE]
    IN  IF badUnit # 0 THEN [ran EXCEPT !.exc = UnitExc(units[badUnit])]
        ELSE IF badMach # 0 THEN [ran EXCEPT !.exc = MachineExc(machines[badMach], gen_units)]
        ELSE LET total == [ran EXCEPT !.printed = TRUE, !.total = TotalCapacity(units)]
             IN  IF badRow # 0
                 THEN [total EXCEPT !.rows = SubSeq(joined, 1, badRow - 1),
                                    !.exc = PrintExc1(joined[badRow])]
                 ELSE [total EXCEPT !.rows = joined]

(***************************************************************************)
(* analyze_question_2: regulation control of the machine named NL-G1.      *)
(***************************************************************************)
Q2NotRun ==
    [ran |-> FALSE, found |-> FALSE, mrid |-> None, notFoundWarning |-> FALSE,
     resolved |-> FALSE, mode |-> None, exc |-> NoExc]

analyze_question_2(tree) ==
    LET machines == findall(tree, "SynchronousMachine")
        at       == First(machines,
                          LAMBDA m : get_element_text(m, "IdentifiedObject.name") = generator_name)
        ran      == [Q2NotRun EXCEPT !.ran = TRUE]
    IN  IF at = 0 THEN ran
        ELSE LET sync_machine    == machines[at]
                 reg_control_ref ==
                     get_element_resource(sync_machine, "RegulatingCondEq.RegulatingControl")
                 controls == findall(tree, "RegulatingControl")
                 rc == IF reg_control_ref = None THEN 0
                       ELSE First(controls,
                                  LAMBDA c : get_element_text(c, "IdentifiedObject.mRID")
                                             = SplitHashUnderscore(reg_control_ref))
                 mode_resource ==
                     IF rc = 0 THEN None
                     ELSE get_element_resource(controls[rc], "RegulatingControl.mode")
                 generator == [ran EXCEPT
                                 !.found = TRUE,
                                 !.mrid = get_element_text(sync_machine, "IdentifiedObject.mRID")]
             IN  IF reg_control_ref = None THEN [generator EXCEPT !.notFoundWarning = TRUE]
                 ELSE IF rc = 0 THEN generator
                 ELSE [generator EXCEPT
                         !.resolved = TRUE,
                         !.mode = IF mode_resource # None THEN SplitHash(mode_resource)
                                  ELSE "Unknown"]

(***************************************************************************)
(* analyze_question_5: slack generator identification.                     *)
(***************************************************************************)
ControlStr(gen_unit) ==
    LET control_source == get_element_resource(gen_unit, "GeneratingUnit.genControlSource")
    IN  IF control_source # None THEN SplitHash(control_source) ELSE "Not specified"

\* 'onAGC' in control_str or 'slack' in control_str.lower()
IsSlack(control_str) ==
    In("onAGC", control_str) \/ "slack" \in ContainedLower[Lower[control_str]]

\* the exception raised while one generating unit is recorded and printed
GeneratorExc(gen_unit) ==
    LET max_p == get_element_text(gen_unit, "GeneratingUnit.maxOperatingP")
    IN  IF max_p # None /\ max_p \notin DOMAIN FloatOf THEN "ValueError"
        ELSE IF get_element_text(gen_unit, "IdentifiedObject.name") = None THEN "TypeError"
        ELSE NoExc

Generator(gen_unit) ==
    LET max_p == get_element_text(gen_unit, "GeneratingUnit.maxOperatingP")
    IN  [name    |-> get_element_text(gen_unit, "IdentifiedObject.name"),
         control |-> ControlStr(gen_unit),
         max_p   |-> IF max_p # None THEN FloatOf[max_p] ELSE 0,
         slack   |-> IsSlack(ControlStr(gen_unit))]

\* max(generators, key=lambda x: x['max_p']): the first of the largest
Largest(generators) ==
    generators[CHOOSE i \in 1..Len(generators) :
                  /\ \A j \in 1..Len(generators) : generators[j].max_p <= generators[i].max_p
                  /\ \A j \in 1..(i - 1) : generators[j].max_p < generators[i].max_p]

NoGenerator == [name |-> None, control |-> "Not specified", max_p |-> 0, slack |-> FALSE]

Q5NotRun ==
    [ran |-> FALSE, lines |-> <<>>, warning |-> FALSE, recommended |-> FALSE,
     largest |-> NoGenerator, exc |-> NoExc]

analyze_question_5(tree) ==
    LET units      == findall(tree, "GeneratingUnit")
        bad        == First(units, LAMBDA e : GeneratorExc(e) # NoExc)
        generators == [i \in 1..Len(units) |-> Generator(units[i])]
        slack_found == \E i \in 1..Len(generators) : generators[i].slack
        ran        == [Q5NotRun EXCEPT !.ran = TRUE]
    IN  IF bad # 0
        THEN [ran EXCEPT !.lines = [i \in 1..(bad - 1) |-> Generator(units[i])],
                         !.exc = GeneratorExc(units[bad])]
        ELSE LET listed == [ran EXCEPT !.lines = generators]
             IN  IF slack_found THEN listed
                 ELSE IF generators = <<>> THEN [listed EXCEPT !.warning = TRUE]
                 ELSE [listed EXCEPT !.warning = TRUE, !.recommended = TRUE,
                                     !.largest = Largest(generators)]

(***************************************************************************)
(* analyze_question_4: limits of the line line_id.  The rows are printed   *)
(* as the nested loops find them, so the loops are unrolled into the       *)
(* sequence of their events (a row printed, or an exception raised) and    *)
(* the output is what precedes the first exception.                        *)
(***************************************************************************)
RECURSIVE Concat(_)
Concat(seqs) ==
    IF seqs = <<>> THEN <<>>
    ELSE Concat(SubSeq(seqs, 1, Len(seqs) - 1)) \o seqs[Len(seqs)]

NoDuration == [kind |-> "N/A", seconds |-> None]

Event4(exc, port, type, value, duration) ==
    [exc |-> exc, port |-> port, type |-> type, value |-> value, duration |-> duration]

Raise4(exc) == <<Event4(exc, None, None, None, NoDuration)>>

\* "Permanent" if is_infinite == "true" else f"{duration}s" if duration else "N/A"
DurationStr(limit_type) ==
    LET duration    == get_element_text(limit_type, "OperationalLimitType.acceptableDuration")
        is_infinite == get_element_text(limit_type, "OperationalLimitType.isInfiniteDuration")
    IN  IF is_infinite = "true" THEN [kind |-> "Permanent", seconds |-> None]
        ELSE IF duration # None THEN [kind |-> "Seconds", seconds |-> duration]
        ELSE NoDuration

TerminalOfLine(terminal) ==
    LET equip_ref == get_element_resource(terminal, "Terminal.ConductingEquipment")
    IN  equip_ref # None /\ In(line_id, equip_ref)

Term(terminal) ==
    [mrid |-> get_element_text(terminal, "IdentifiedObject.mRID"),
     seq  |-> get_element_text(terminal, "ACDCTerminal.sequenceNumber")]

LimitEvents4(tree, term, current_limit) ==
    LET limit_value    == get_element_text(current_limit, "CurrentLimit.normalValue")
        limit_type_ref == get_element_resource(current_limit,
                                               "OperationalLimit.OperationalLimitType")
        types == findall(tree, "OperationalLimitType")
        lt    == IF limit_type_ref = None THEN 0
                 ELSE First(types,
                            LAMBDA t : get_element_text(t, "IdentifiedObject.mRID")
                                       = SplitHashUnderscore(limit_type_ref))
        lt_name == get_element_text(types[lt], "IdentifiedObject.name")
    IN  IF lt = 0 THEN <<>>
        ELSE IF term.seq = None \/ lt_name = None \/ limit_value = None
        THEN Raise4("TypeError")
        ELSE <<Event4(NoExc, term.seq, lt_name, limit_value, DurationStr(types[lt]))>>

SetEvents4(tree, term, limit_set) ==
    LET term_ref       == get_element_resource(limit_set, "OperationalLimitSet.Terminal")
        limit_set_mrid == get_element_text(limit_set, "IdentifiedObject.mRID")
        limits         == findall(tree, "CurrentLimit")
        OfLimit(current_limit) ==
            LET ls_ref == get_element_resource(current_limit,
                                               "OperationalLimit.OperationalLimitSet")
            IN  IF ls_ref = None THEN <<>>
                ELSE IF limit_set_mrid = None THEN Raise4("TypeError")
                ELSE IF In(limit_set_mrid, ls_ref)
                THEN LimitEvents4(tree, term, current_limit)
                ELSE <<>>
    IN  IF term_ref = None THEN <<>>
        ELSE IF term.mrid = None THEN Raise4("TypeError")
        ELSE IF In(term.mrid, term_ref)
        THEN Concat([i \in 1..Len(limits) |-> OfLimit(limits[i])])
        ELSE <<>>

Events4(tree) ==
    LET found     == SelectSeq(findall(tree, "Terminal"), TerminalOfLine)
        terminals == [i \in 1..Len(found) |-> Term(found[i])]
        sets      == findall(tree, "OperationalLimitSet")
    IN  Concat([i \in 1..Len(terminals) |->
                  Concat([j \in 1..Len(sets) |-> SetEvents4(tree, terminals[i], sets[j])])])

Q4NotRun == [ran |-> FALSE, found |-> FALSE, rows |-> <<>>, exc |-> NoExc]

analyze_question_4(tree) ==
    LET lines  == findall(tree, "ACLineSegment")
        found  == First(lines, LAMBDA l : get_element_text(l, "IdentifiedObject.mRID")
                                          = line_id) # 0
        events == Events4(tree)
        bad    == First(events, LAMBDA e : e.exc # NoExc)
        ran    == [Q4NotRun EXCEPT !.ran = TRUE]
    IN  IF ~found THEN ran
        ELSE IF bad # 0
        THEN [ran EXCEPT !.found = TRUE, !.rows = SubSeq(events, 1, bad - 1),
                         !.exc = events[bad].exc]
        ELSE [ran EXCEPT !.found = TRUE, !.rows = events]

(***************************************************************************)
(* analyze_question_6: model errors and issues.  A finding is one string   *)
(* appended to errors or warnings; it is kept as the record of what the    *)
(* string says.  rule and at (the position in the document of the element  *)
(* at which the finding was discovered) are not printed: they record where *)
(* the line came from.                                                     *)
(***************************************************************************)
Finding(rule, category, at, subject, types, names, count, tatl, patl) ==
    [rule |-> rule, category |-> category, at |-> at, subject |-> subject,
     types |-> types, names |-> names, count |-> count, tatl |-> tatl, patl |-> patl]

\* the positions in the document of the elements passing Test
Positions(tree, Test(_)) == {i \in 1..Len(tree) : Test(tree[i])}

\* the members of a set of positions, ascending
RECURSIVE Ascending(_)
Ascending(S) ==
    IF S = {} THEN <<>>
    ELSE LET m == CHOOSE i \in S : \A j \in S : i <= j
         IN  <<m>> \o Ascending(S \ {m})

\* [1] duplicate mRIDs: mrids maps each mRID text to the types of the
\* elements carrying it, keyed in order of first occurrence
HasMrid(element) == get_element_text(element, "IdentifiedObject.mRID") # None

Carriers(tree, mrid) ==
    Positions(tree, LAMBDA e : get_element_text(e, "IdentifiedObject.mRID") = mrid)

\* keys that are not made unique: one key for every element with an mRID
EveryCarrier(tree) == Positions(tree, HasMrid)

FirstCarriers(tree) ==
    {i \in Positions(tree, HasMrid) :
        \A j \in 1..(i - 1) :
            get_element_text(tree[j], "IdentifiedObject.mRID")
                # get_element_text(tree[i], "IdentifiedObject.mRID")}

DuplicateLines(tree, i) ==
    LET mrid     == get_element_text(tree[i], "IdentifiedObject.mRID")
        elements == Carriers(tree, mrid)
    IN  IF Cardinality(elements) > 1
        THEN << Finding(1, "DUPLICATE mRID", i, mrid, {}, <<>>, 0, 0, 0),
                Finding(1, "Used in", i, None, {tree[j].type : j \in elements}, <<>>,
                        Cardinality(elements), 0, 0) >>
        ELSE <<>>

Rule1(tree) ==
    LET keys == Ascending(FirstCarriers(tree))
    IN  Concat([k \in 1..Len(keys) |-> DuplicateLines(tree, keys[k])])

\* [2] duplicate mRIDs among the PowerTransformerEnd elements
IsEnd(element) == element.type = "PowerTransformerEnd"

EndLines(tree, i) ==
    LET mrid  == get_element_text(tree[i], "IdentifiedObject.mRID")
        ends  == Ascending(Carriers(tree, mrid) \cap Positions(tree, IsEnd))
        names == [k \in 1..Len(ends) |-> get_element_text(tree[ends[k]], "IdentifiedObject.name")]
    IN  IF Len(names) > 1
        THEN << Finding(2, "DUPLICATE PowerTransformerEnd mRID", i, mrid, {}, <<>>, 0, 0, 0),
                Finding(2, "Found in", i, None, {}, names, Len(names), 0, 0) >>
        ELSE <<>>

Rule2(tree) ==
    LET ends == Positions(tree, IsEnd) \cap Positions(tree, HasMrid)
        keys == Ascending({i \in ends :
                    \A j \in ends : j < i =>
                        get_element_text(tree[j], "IdentifiedObject.mRID")
                            # get_element_text(tree[i], "IdentifiedObject.mRID")})
    IN  Concat([k \in 1..Len(keys) |-> EndLines(tree, keys[k])])

\* [3] TATL below PATL.  The loop over the current limits of one limit set
\* is a fold over (patl_value, tatl_value), each None or a float, that
\* stops at the first exception.
NoLimits ==
    [exc |-> NoExc, patl_none |-> TRUE, patl_value |-> 0,
     tatl_none |-> TRUE, tatl_value |-> 0]

LimitStep(tree, ls_mrid, acc, current_limit) ==
    LET ls_ref         == get_element_resource(current_limit,
                                               "OperationalLimit.OperationalLimitSet")
        limit_value    == get_element_text(current_limit, "CurrentLimit.normalValue")
        limit_type_ref == get_element_resource(current_limit,
                                               "OperationalLimit.OperationalLimitType")
        types   == findall(tree, "OperationalLimitType")
        lt      == IF limit_type_ref = None THEN 0
                   ELSE First(types,
                              LAMBDA t : get_element_text(t, "IdentifiedObject.mRID")
                                         = SplitHashUnderscore(limit_type_ref))
        lt_name == get_element_text(types[lt], "IdentifiedObject.name")
    IN  IF acc.exc # NoExc \/ ls_ref = None THEN acc
        ELSE IF ls_mrid = None THEN [acc EXCEPT !.exc = "TypeError"]
        ELSE IF ~In(ls_mrid, ls_ref) \/ limit_type_ref = None \/ lt = 0 THEN acc
        ELSE IF lt_name = None THEN [acc EXCEPT !.exc = "TypeError"]
        ELSE IF In("PATL", lt_name)
        THEN IF limit_value = None THEN [acc EXCEPT !.patl_none = TRUE, !.patl_value = 0]
             ELSE IF limit_value \notin DOMAIN FloatOf THEN [acc EXCEPT !.exc = "ValueError"]
             ELSE [acc EXCEPT !.patl_none = FALSE, !.patl_value = FloatOf[limit_value]]
        ELSE IF In("TATL", lt_name)
        THEN IF limit_value = None THEN [acc EXCEPT !.tatl_none = TRUE, !.tatl_value = 0]
             ELSE IF limit_value \notin DOMAIN FloatOf THEN [acc EXCEPT !.exc = "ValueError"]
             ELSE [acc EXCEPT !.tatl_none = FALSE, !.tatl_value = FloatOf[limit_value]]
        ELSE acc

RECURSIVE LimitFold(_, _, _)
LimitFold(tree, ls_mrid, limits) ==
    IF limits = <<>> THEN NoLimits
    ELSE LimitStep(tree, ls_mrid,
                   LimitFold(tree, ls_mrid, SubSeq(limits, 1, Len(limits) - 1)),
                   limits[Len(limits)])

LimitsOf(tree, i) ==
    LimitFold(tree, get_element_text(tree[i], "IdentifiedObject.mRID"),
              findall(tree, "CurrentLimit"))

\* if patl_value and tatl_value and tatl_value < patl_value
Illogical(acc) ==
    /\ ~acc.patl_none /\ acc.patl_value # 0
    /\ ~acc.tatl_none /\ acc.tatl_value # 0
    /\ acc.tatl_value < acc.patl_value

LimitLines(tree, i) ==
    LET acc == LimitsOf(tree, i)
    IN  IF Illogical(acc)
        THEN << Finding(3, "ILLOGICAL LIMIT", i, None, {}, <<>>, 0,
                        acc.tatl_value, acc.patl_value),
                Finding(3, "Temporary limit should be HIGHER", i, None, {}, <<>>, 0, 0, 0) >>
        ELSE <<>>

IsLimitSet(element) == element.type = "OperationalLimitSet"

Rule3Exc(tree) ==
    LET sets == Ascending(Positions(tree, IsLimitSet))
        bad  == First(sets, LAMBDA i : LimitsOf(tree, i).exc # NoExc)
    IN  IF bad = 0 THEN NoExc ELSE LimitsOf(tree, sets[bad]).exc

\* the lines rule 3 appends: those of every limit set, or of the limit sets
\* before the one at which the rule raises
Rule3(tree) ==
    LET sets == Ascending(Positions(tree, IsLimitSet))
        bad  == First(sets, LAMBDA i : LimitsOf(tree, i).exc # NoExc)
        done == IF bad = 0 THEN Len(sets) ELSE bad - 1
    IN  Concat([k \in 1..done |-> LimitLines(tree, sets[k])])

\* [4] voltage level against base voltage; a ValueError of float() is
\* caught and the voltage level skipped
Tolerance == 1

Abs(x) == IF x < 0 THEN -x ELSE x

Mismatch(vl_num, bv_num) == Abs(vl_num - bv_num) > Tolerance

IsVoltageLevel(element) == element.type = "VoltageLevel"

VoltageLines(tree, i) ==
    LET vl_name    == get_element_text(tree[i], "IdentifiedObject.name")
        base_v_ref == get_element_resource(tree[i], "VoltageLevel.BaseVoltage")
        bases      == findall(tree, "BaseVoltage")
        bv         == IF base_v_ref = None \/ vl_name = None THEN 0
                      ELSE First(bases,
                                 LAMBDA b : get_element_text(b, "IdentifiedObject.mRID")
                                            = SplitHashUnderscore(base_v_ref))
        nominal_v  == get_element_text(bases[bv], "BaseVoltage.nominalVoltage")
    IN  IF bv = 0 THEN <<>>
        ELSE IF nominal_v = None THEN <<>>
        ELSE IF vl_name \notin DOMAIN FloatOf \/ nominal_v \notin DOMAIN FloatOf THEN <<>>
        ELSE IF Mismatch(FloatOf[vl_name], FloatOf[nominal_v])
        THEN << Finding(4, "VOLTAGE MISMATCH", i, vl_name, {}, <<>>, 0, 0,
                        FloatOf[nominal_v]) >>
        ELSE <<>>

Rule4(tree) ==
    LET levels == Ascending(Positions(tree, IsVoltageLevel))
    IN  Concat([k \in 1..Len(levels) |-> VoltageLines(tree, levels[k])])

\* [5] if r and x and float(r) == 0 and float(x) == 0
IsInjection(element) == element.type = "EquivalentInjection"

InjectionExc(eq_inj) ==
    LET r == get_element_text(eq_inj, "EquivalentInjection.r")
        x == get_element_text(eq_inj, "EquivalentInjection.x")
    IN  IF r = None \/ x = None THEN NoExc
        ELSE IF r \notin DOMAIN FloatOf THEN "ValueError"
        ELSE IF FloatOf[r] # 0 THEN NoExc
        ELSE IF x \notin DOMAIN FloatOf THEN "ValueError"
        ELSE NoExc

InjectionLines(tree, i) ==
    LET r == get_element_text(tree[i], "EquivalentInjection.r")
        x == get_element_text(tree[i], "EquivalentInjection.x")
    IN  IF r # None /\ x # None /\ FloatOf[r] = 0 /\ FloatOf[x] = 0
        THEN << Finding(5, "ZERO IMPEDANCE", i,
                        get_element_text(tree[i], "IdentifiedObject.name"),
                        {}, <<>>, 0, 0, 0) >>
        ELSE <<>>

Rule5Exc(tree) ==
    LET injections == findall(tree, "EquivalentInjection")
        bad        == First(injections, LAMBDA e : InjectionExc(e) # NoExc)
    IN  IF bad = 0 THEN NoExc ELSE InjectionExc(injections[bad])

\* the lines rule 5 appends: those of every injection, or of the injections
\* before the one at which the rule raises
Rule5(tree) ==
    LET injections == Ascending(Positions(tree, IsInjection))
        bad        == First(injections, LAMBDA i : InjectionExc(tree[i]) # NoExc)
        done       == IF bad = 0 THEN Len(injections) ELSE bad - 1
    IN  Concat([k \in 1..done |-> InjectionLines(tree, injections[k])])

\* [6] scan of the raw text of the file: what the text contains
Plain(category) == Finding(6, category, 0, None, {}, <<>>, 0, 0, 0)

Rule6Errors(raw) ==
    IF ~raw.readable THEN <<>>
    ELSE (IF raw.fullModelOpen /\ ~raw.fullModelClose
          THEN <<Plain("XML STRUCTURE ERROR")>> ELSE <<>>)
         \o (IF raw.incompleteMrid THEN <<Plain("INCOMPLETE mRID")>> ELSE <<>>)
         \o (IF raw.lname THEN <<Plain("XML TYPO ERROR")>> ELSE <<>>)

Rule6Warnings(raw) ==
    IF ~raw.readable THEN <<Plain("XML structure could not be checked")>> ELSE <<>>

\* the error summary: the errors, numbered, and then the warnings, numbered
Printed(severity, findings) ==
    [i \in 1..Len(findings) |-> [severity |-> severity, finding |-> findings[i]]]

\* a summary that prints the warnings before the errors
ReportWarningsFirst(errors, warnings) ==
    Printed("warning", warnings) \o Printed("error", errors)

Report(errors, warnings) == Printed("error", errors) \o Printed("warning", warnings)

\* started: the number of the last rule begun; errors, warnings: the two
\* lists as they are when the function is left, by its end or by an
\* exception; report: the error summary printed from them at the end
Q6NotRun ==
    [ran |-> FALSE, started |-> 0, errors |-> <<>>, warnings |-> <<>>,
     summary |-> FALSE, report |-> <<>>, exc |-> NoExc]

analyze_question_6(tree, f) ==
    LET upTo3    == Rule1(tree) \o Rule2(tree) \o Rule3(tree)
        upTo5    == Rule4(tree) \o Rule5(tree)
        errors   == upTo3 \o Rule6Errors(f.raw)
        warnings == upTo5 \o Rule6Warnings(f.raw)
        ran      == [Q6NotRun EXCEPT !.ran = TRUE]
    IN  IF Rule3Exc(tree) # NoExc
        THEN [ran EXCEPT !.started = 3, !.errors = upTo3, !.exc = Rule3Exc(tree)]
        ELSE IF Rule5Exc(tree) # NoExc
        THEN [ran EXCEPT !.started = 5, !.errors = upTo3, !.warnings = upTo5,
                         !.exc = Rule5Exc(tree)]
        ELSE [ran EXCEPT !.started = 6, !.errors = errors, !.warnings = warnings,
                         !.summary = TRUE, !.report = Report(errors, warnings)]

(***************************************************************************)
(* main: parse, then the six analyses inside one try/except.               *)
(***************************************************************************)
\* the step after an analysis: the next one, or the except clause of main
Continue(result, next) ==
    IF result.exc # NoExc
    THEN /\ pc' = "done"
         /\ console' = Append(console, "Error during analysis")
    ELSE /\ pc' = next
         /\ console' = IF next = "done" THEN Append(console, "ANALYSIS COMPLETED")
                       ELSE console

\* the tree an analysis leaves behind, had it removed an element it read
RemovingLast(tree) == SubSeq(tree, 1, Len(tree) - 1)

\* the tree an analysis leaves behind: the analyses call only findall, find,
\* get and text on it, and append to and sort lists and dicts of their own
TreeAfter(tree) == tree

Load ==
    /\ pc = "parse"
    /\ root' = parse_cgmes_file(file)
    /\ IF root'.isNone
       THEN /\ console' = Append(console, "Error")
            /\ pc' = "done"
       ELSE /\ console' = Append(console, "File loaded")
            /\ pc' = "q1"
    /\ UNCHANGED <<task1, file, q1, q2, q3, q4, q5, q6>>

Question1 ==
    /\ pc = "q1"
    /\ q1' = analyze_question_1(root.elems)
    /\ root' = [root EXCEPT !.elems = TreeAfter(root.elems)]
    /\ Continue(q1', "q2")
    /\ UNCHANGED <<task1, file, q2, q3, q4, q5, q6>>

Question2 ==
    /\ pc = "q2"
    /\ q2' = analyze_question_2(root.elems)
    /\ root' = [root EXCEPT !.elems = TreeAfter(root.elems)]
    /\ Continue(q2', "q3")
    /\ UNCHANGED <<task1, file, q1, q3, q4, q5, q6>>

Question3 ==
    /\ pc = "q3"
    /\ q3' = analyze_question_3(root.elems)
    /\ root' = [root EXCEPT !.elems = TreeAfter(root.elems)]
    /\ Continue(q3', "q4")
    /\ UNCHANGED <<task1, file, q1, q2, q4, q5, q6>>

Question4 ==
    /\ pc = "q4"
    /\ q4' = analyze_question_4(root.elems)
    /\ root' = [root EXCEPT !.elems = TreeAfter(root.elems)]
    /\ Continue(q4', "q5")
    /\ UNCHANGED <<task1, file, q1, q2, q3, q5, q6>>

Question5 ==
    /\ pc = "q5"
    /\ q5' = analyze_question_5(root.elems)
    /\ root' = [root EXCEPT !.elems = TreeAfter(root.elems)]
    /\ Continue(q5', "q6")
    /\ UNCHANGED <<task1, file, q1, q2, q3, q4, q6>>

Question6 ==
    /\ pc = "q6"
    /\ q6' = analyze_question_6(root.elems, file)
    /\ root' = [root EXCEPT !.elems = TreeAfter(root.elems)]
    /\ Continue(q6', "done")
    /\ UNCHANGED <<task1, file, q1, q2, q3, q4, q5>>

Next == Load \/ Question1 \/ Question2 \/ Question3 \/ Question4 \/ Question5 \/ Question6

(***************************************************************************)
(* task1/task1.py: the aFRR / imbalance pipeline.                          *)
(*                                                                         *)
(* main() has no try/except: it fetches and parses the aFRR series, then   *)
(* the imbalance series, computes the metrics table, saves it, draws two   *)
(* plots and writes the assessment report.  Every call of main is one      *)
(* action; an exception raised by a call leaves main and ends the run.     *)
(*                                                                         *)
(* The two HTTP responses are the inputs of a run.  A response is what     *)
(* requests.get does (error: the exception it raises, if any), the status  *)
(* code, whether the Content-Type is application/json, whether the body    *)
(* decodes as JSON, and the decoded body.  A body says whether it has the  *)
(* "data" key, whether that has the "timeseries" key, and lists the items. *)
(* An item has a "from" timestamp (valid: pandas can parse it) and a list  *)
(* of values (numeric: sum() accepts them).  Timestamps are small numbers. *)
(* A cell of a table is a number or NaN.                                   *)
(***************************************************************************)
Response(error, status, json_type, decodes, body) ==
    [error |-> error, status |-> status, json_type |-> json_type,
     decodes |-> decodes, body |-> body]

Body(has_data, has_timeseries, timeseries) ==
    [has_data |-> has_data, has_timeseries |-> has_timeseries, timeseries |-> timeseries]

Item(valid, from, numeric, values) ==
    [valid |-> valid, from |-> from, numeric |-> numeric, values |-> values]

NoBody == Body(FALSE, FALSE, <<>>)

NoResponse == Response(NoExc, 200, TRUE, TRUE, NoBody)

Cell(v) == [nan |-> FALSE, v |-> v]

NaN == [nan |-> TRUE, v |-> 0]

Returned(value) == [exc |-> NoExc, value |-> value]

Raised(exc, value) == [exc |-> exc, value |-> value]

\* fetch_data, had it turned every failure of the request into ValueError
\* as it does for a body that is not JSON
fetch_wrapping_errors(resp) ==
    IF resp.error # NoExc \/ resp.status >= 400 \/ ~resp.json_type \/ ~resp.decodes
    THEN Raised("ValueError", NoBody)
    ELSE Returned(resp.body)

\* requests.get, raise_for_status, the Content-Type test and resp.json()
fetch_data(resp) ==
    IF resp.error # NoExc THEN Raised(resp.error, NoBody)
    ELSE IF resp.status >= 400 THEN Raised("HTTPError", NoBody)
    ELSE IF ~resp.json_type THEN Raised("ValueError", NoBody)
    ELSE IF ~resp.decodes THEN Raised("ValueError", NoBody)
    ELSE Returned(resp.body)

\* sum(values) if values else 0.0
RECURSIVE sum(_)
sum(values) ==
    IF values = <<>> THEN 0 ELSE Head(values) + sum(Tail(values))

total_value(item) == IF item.values # <<>> THEN sum(item.values) ELSE 0

\* the records of the loop, one per item
RECURSIVE records(_)
records(timeseries) ==
    IF timeseries = <<>> THEN <<>>
    ELSE <<[valid |-> Head(timeseries).valid, timestamp |-> Head(timeseries).from,
            value |-> total_value(Head(timeseries))]>>
         \o records(Tail(timeseries))

\* to_datetime(errors='coerce') turns an unparseable timestamp into NaT and
\* dropna removes its row
RECURSIVE dropna(_)
dropna(rows) ==
    IF rows = <<>> THEN <<>>
    ELSE IF Head(rows).valid
         THEN <<[timestamp |-> Head(rows).timestamp, value |-> Head(rows).value]>>
              \o dropna(Tail(rows))
         ELSE dropna(Tail(rows))

\* sort_index: a stable sort by timestamp
RECURSIVE insert_sorted(_, _)
insert_sorted(row, sorted) ==
    IF sorted = <<>> THEN <<row>>
    ELSE IF Head(sorted).timestamp <= row.timestamp
         THEN <<Head(sorted)>> \o insert_sorted(row, Tail(sorted))
         ELSE <<row>> \o sorted

RECURSIVE sort_index(_)
sort_index(rows) ==
    IF rows = <<>> THEN <<>>
    ELSE insert_sorted(rows[Len(rows)], sort_index(SubSeq(rows, 1, Len(rows) - 1)))

parse_to_dataframe(data) ==
    IF ~data.has_data THEN Raised("ValueError", <<>>)
    ELSE IF ~data.has_timeseries THEN Raised("ValueError", <<>>)
    ELSE IF data.timeseries = <<>> THEN Raised("ValueError", <<>>)
    ELSE IF \E i \in 1..Len(data.timeseries) : ~data.timeseries[i].numeric
         THEN Raised("TypeError", <<>>)
    ELSE Returned(sort_index(dropna(records(data.timeseries))))

\* the index of a frame and the value a reindexed frame has at one time
index(df) == {df[i].timestamp : i \in 1..Len(df)}

reindexed(df, t) ==
    IF t \in index(df)
    THEN Cell((CHOOSE row \in {df[i] : i \in 1..Len(df)} : row.timestamp = t).value)
    ELSE NaN

abs(cell) == IF cell.nan THEN NaN ELSE Cell(IF cell.v < 0 THEN 0 - cell.v ELSE cell.v)

\* afrr_abs / imbalance_abs.replace(0, pd.NA): a quotient, NaN where either
\* side is missing or the divisor is zero
ratio_abs(afrr, imbalance) ==
    IF afrr.nan \/ imbalance.nan \/ imbalance.v = 0
    THEN [nan |-> TRUE, num |-> 0, den |-> 1]
    ELSE [nan |-> FALSE, num |-> abs(afrr).v, den |-> abs(imbalance).v]

RECURSIVE sort_values(_)
sort_values(times) ==
    IF times = {} THEN <<>>
    ELSE LET first == CHOOSE t \in times : \A u \in times : t <= u
         IN <<first>> \o sort_values(times \ {first})

calculate_metrics(afrr_df, imbalance_df) ==
    LET all_times == sort_values(index(afrr_df) \cup index(imbalance_df))
    IN [i \in 1..Len(all_times) |->
          [timestamp |-> all_times[i],
           afrr_activation |-> reindexed(afrr_df, all_times[i]),
           imbalance |-> reindexed(imbalance_df, all_times[i]),
           ratio_abs |-> ratio_abs(reindexed(afrr_df, all_times[i]),
                               reindexed(imbalance_df, all_times[i]))]]

\* Series.sum() skips NaN
RECURSIVE column_sum(_)
column_sum(cells) ==
    IF cells = <<>> THEN 0
    ELSE (IF Head(cells).nan THEN 0 ELSE Head(cells).v) + column_sum(Tail(cells))

afrr_abs(metrics_df) == [i \in 1..Len(metrics_df) |-> abs(metrics_df[i].afrr_activation)]

imbalance_abs(metrics_df) == [i \in 1..Len(metrics_df) |-> abs(metrics_df[i].imbalance)]

\* (afrr_abs.sum() / imbalance_abs.replace(0, pd.NA).sum())
\*     if imbalance_abs.sum() > 0 else None
avg_ratio(metrics_df) ==
    IF column_sum(imbalance_abs(metrics_df)) > 0
    THEN [none |-> FALSE, num |-> column_sum(afrr_abs(metrics_df)),
          den |-> column_sum(imbalance_abs(metrics_df))]
    ELSE [none |-> TRUE, num |-> 0, den |-> 1]

\* "if avg_ratio:" is false for None and for 0.0
Truthy(ratio) == ~ratio.none /\ ratio.num # 0

UnableLine == "Unable to calculate ratio due to zero imbalance values."

Assessment(ratio) ==
    IF Truthy(ratio)
    THEN IF ratio.num > ratio.den THEN "High activation ratio (>1.0)"
         ELSE IF 2 * ratio.num > ratio.den THEN "Moderate activation ratio (0.5-1.0)"
         ELSE "Low activation ratio (<0.5)"
    ELSE UnableLine

\* the lines of assessment.txt in the order they are written; formatting
\* None with ".4f" raises TypeError after the two totals are written
generate_report(metrics_df) ==
    LET ratio == avg_ratio(metrics_df)
        head == <<"Task 1: aFRR Activation Assessment Report", "SUMMARY METRICS",
                  "Total aFRR Activation (MW)", "Total Imbalance Volume (MW)">>
    IN IF ratio.none THEN Raised("TypeError", head)
       ELSE Returned(head \o <<"Average |aFRR Activation| / |Imbalance| Ratio",
                               "Max aFRR Activation (MW)", "Max Imbalance Volume (MW)",
                               "THEORETICAL BACKGROUND", "ASSESSMENT",
                               Assessment(ratio)>>)

Task1NotRun ==
    [pc |-> "not run", afrr_response |-> NoResponse, imbalance_response |-> NoResponse,
     afrr_data |-> NoBody, imbalance_data |-> NoBody,
     afrr_df |-> <<>>, imbalance_df |-> <<>>, metrics_df |-> <<>>,
     outputs |-> {}, assessment |-> <<>>, exc |-> NoExc]

Task2Idle == UNCHANGED <<file, root, pc, console, q1, q2, q3, q4, q5, q6>>

\* main after one call: the exception leaves main, or the run goes on
Step(result, next, changes) ==
    IF result.exc # NoExc
    THEN task1' = [changes EXCEPT !.pc = "raised", !.exc = result.exc]
    ELSE task1' = [changes EXCEPT !.pc = next]

FetchAfrr ==
    /\ task1.pc = "fetch_afrr"
    /\ LET result == fetch_data(task1.afrr_response)
       IN Step(result, "parse_afrr", [task1 EXCEPT !.afrr_data = result.value])
    /\ Task2Idle

ParseAfrr ==
    /\ task1.pc = "parse_afrr"
    /\ LET result == parse_to_dataframe(task1.afrr_data)
       IN Step(result, "fetch_imbalance", [task1 EXCEPT !.afrr_df = result.value])
    /\ Task2Idle

FetchImbalance ==
    /\ task1.pc = "fetch_imbalance"
    /\ LET result == fetch_data(task1.imbalance_response)
       IN Step(result, "parse_imbalance", [task1 EXCEPT !.imbalance_data = result.value])
    /\ Task2Idle

ParseImbalance ==
    /\ task1.pc = "parse_imbalance"
    /\ LET result == parse_to_dataframe(task1.imbalance_data)
       IN Step(result, "calculate_metrics", [task1 EXCEPT !.imbalance_df = result.value])
    /\ Task2Idle

CalculateMetrics ==
    /\ task1.pc = "calculate_metrics"
    /\ task1' = [task1 EXCEPT !.pc = "to_csv",
                              !.metrics_df = calculate_metrics(task1.afrr_df, task1.imbalance_df)]
    /\ Task2Idle

SaveMetrics ==
    /\ task1.pc = "to_csv"
    /\ task1' = [task1 EXCEPT !.pc = "create_plots",
                              !.outputs = task1.outputs \cup {"metrics.csv"}]
    /\ Task2Idle

CreatePlots ==
    /\ task1.pc = "create_plots"
    /\ task1' = [task1 EXCEPT !.pc = "generate_report",
                              !.outputs = task1.outputs \cup {"timeseries.png", "ratio.png"}]
    /\ Task2Idle

\* the file is opened before anything is formatted, so it exists (with the
\* lines written so far) also when the formatting raises
GenerateReport ==
    /\ task1.pc = "generate_report"
    /\ LET result == generate_report(task1.metrics_df)
       IN Step(result, "complete",
               [task1 EXCEPT !.outputs = task1.outputs \cup {"assessment.txt"},
                             !.assessment = result.value])
    /\ Task2Idle

NextPipeline ==
    \/ FetchAfrr \/ ParseAfrr \/ FetchImbalance \/ ParseImbalance
    \/ CalculateMetrics \/ SaveMetrics \/ CreatePlots \/ GenerateReport

(***************************************************************************)
(* Documents.  Opt(tag, value) is the child map of one child, empty when   *)
(* the child is absent.                                                    *)
(***************************************************************************)
Opt(tag, value) == IF value = None THEN Empty ELSE tag :> value

\* what rule 6 finds in the text of a file whose model header is absent
\* ("none"), an element with an end tag ("paired"), an empty-element tag
\* ("selfclosed") or a start tag without end tag ("unterminated")
RawText(header, lname, incompleteMrid) ==
    [readable |-> TRUE, header |-> header,
     fullModelOpen |-> header # "none", fullModelClose |-> header = "paired",
     incompleteMrid |-> incompleteMrid, lname |-> lname]

CleanRaw == RawText("paired", FALSE, FALSE)

StartState(f) ==
    /\ file = f
    /\ root = NoRoot
    /\ pc = "parse"
    /\ console = <<>>
    /\ q1 = Q1NotRun /\ q2 = Q2NotRun /\ q3 = Q3NotRun
    /\ q4 = Q4NotRun /\ q5 = Q5NotRun /\ q6 = Q6NotRun
    /\ task1 = Task1NotRun

\* Transformers and their ends.
PowerTransformer(mrid) ==
    Element("PowerTransformer",
            Opt("IdentifiedObject.mRID", mrid) @@ Opt("IdentifiedObject.name", "NL_TR2_2"),
            Empty)

PowerTransformerEnd(tf_ref, end_num, rated_u, rated_s) ==
    Element("PowerTransformerEnd",
            Opt("TransformerEnd.endNumber", end_num)
                @@ Opt("PowerTransformerEnd.ratedU", rated_u)
                @@ Opt("PowerTransformerEnd.ratedS", rated_s),
            Opt("PowerTransformerEnd.PowerTransformer", tf_ref)
                @@ Opt("PowerTransformerEnd.connectionKind", "#WindingConnection.Y"))

EndChoices ==
    {PowerTransformerEnd("#_2184f365-8cd5-4b5d-8a28-9d68603bb6a4", n, u, "1000") :
        n \in {"1", "2", "3"}, u \in {"100", "101", "150", "400"}}
    \cup
    {PowerTransformerEnd("#2184f365-8cd5-4b5d-8a28-9d68603bb6a4", "1", "400", "1000"),
     PowerTransformerEnd("#_tr-other", "1", "400", "1000"),
     PowerTransformerEnd("#_2184f365-8cd5-4b5d-8a28-9d68603bb6a4-b", "3", "150", "1000"),
     PowerTransformerEnd(None, "1", "400", "1000"),
     PowerTransformerEnd("#_2184f365-8cd5-4b5d-8a28-9d68603bb6a4", None, "400", "1000"),
     PowerTransformerEnd("#_2184f365-8cd5-4b5d-8a28-9d68603bb6a4", "2.0", "400", "1000"),
     PowerTransformerEnd("#_2184f365-8cd5-4b5d-8a28-9d68603bb6a4", "2", None, "1000"),
     PowerTransformerEnd("#_2184f365-8cd5-4b5d-8a28-9d68603bb6a4", "2", "0", "1000"),
     PowerTransformerEnd("#_2184f365-8cd5-4b5d-8a28-9d68603bb6a4", "2", "kV", "1000")}

WindingDocs ==
    {transformers \o ends :
        transformers \in {<<>>, <<PowerTransformer(transformer_id)>>,
                          <<PowerTransformer("tr-other")>>},
        ends \in SeqsUpTo(EndChoices, MaxEnds)}

InitWinding ==
    \E elems \in WindingDocs :
        StartState([wellFormed |-> TRUE, elems |-> elems, raw |-> CleanRaw])

SpecWinding == InitWinding /\ [][Next]_vars

(***************************************************************************)
(* The winding query (analyze_question_3) on documents of a transformer    *)
(* and its ends.                                                           *)
(***************************************************************************)
\* the positions of the ends whose PowerTransformer reference, stripped of
\* its prefix, is the identifier of the requested transformer of the document
EndsOfTransformer(tree) ==
    IF \E i \in 1..Len(tree) : tree[i].type = "PowerTransformer" /\ IsTransformer(tree[i])
    THEN {i \in 1..Len(tree) :
            /\ tree[i].type = "PowerTransformerEnd"
            /\ "PowerTransformerEnd.PowerTransformer" \in DOMAIN tree[i].res
            /\ ResourceFacts[tree[i].res["PowerTransformerEnd.PowerTransformer"]].body
                   = transformer_id}
    ELSE {}

RowShows(row, tf_end) ==
    /\ "TransformerEnd.endNumber" \in DOMAIN tf_end.text
    /\ tf_end.text["TransformerEnd.endNumber"] \in DOMAIN IntOf
    /\ IntOf[tf_end.text["TransformerEnd.endNumber"]] = row.end
    /\ "PowerTransformerEnd.ratedU" \in DOMAIN tf_end.text
    /\ tf_end.text["PowerTransformerEnd.ratedU"] \in DOMAIN FloatOf
    /\ FloatOf[tf_end.text["PowerTransformerEnd.ratedU"]] = row.u

Bijections(n) == {f \in [1..n -> 1..n] : \A i, j \in 1..n : f[i] = f[j] => i = j}

\* C6: every query is total over "not found": whether the requested
\* generator, transformer or line is absent or an entity lacks a field the
\* query reads, analyses 2, 3 and 4 complete without raising.
C6_QueriesTotal == q2.exc = NoExc /\ q3.exc = NoExc /\ q4.exc = NoExc

\* C8: the voltage ratio the winding query reports is the largest rated
\* voltage divided by the second largest, whatever the end numbers.
C8_RatioOfTwoLargest ==
    q3.hasRatio =>
        \E i, j \in 1..Len(q3.rows) :
            /\ i # j
            /\ q3.ratio.num = q3.rows[i].u
            /\ q3.ratio.den = q3.rows[j].u
            /\ \A k \in 1..Len(q3.rows) : q3.rows[k].u <= q3.rows[i].u
            /\ \A k \in 1..Len(q3.rows) \ {i} : q3.rows[k].u <= q3.rows[j].u

\* C9: once the winding query has run, its rows are exactly the ends that
\* reference the requested transformer, in ascending end-number order, each
\* high side ("YG") exactly when its rated voltage exceeds 100.
C9_WindingRows ==
    q3.ran =>
        LET ends == Ascending(EndsOfTransformer(file.elems))
            rows == q3.rows
        IN  /\ Len(rows) = Len(ends)
            /\ \E f \in Bijections(Len(rows)) :
                   \A i \in 1..Len(rows) : RowShows(rows[i], file.elems[ends[f[i]]])
            /\ \A i, j \in 1..Len(rows) : i < j => rows[i].end <= rows[j].end
            /\ \A i \in 1..Len(rows) : (rows[i].side = "YG") <=> (rows[i].u > 100)

\* the listing as the code prints it, where it is printed: the ends whose
\* reference contains the identifier, by end number, classified at 100
WindingRowsWhenListed ==
    (q3.ran /\ q3.found /\ q3.exc \in {NoExc, "ZeroDivisionError"}) =>
        LET ends == Ascending({i \in 1..Len(file.elems) :
                                 /\ file.elems[i].type = "PowerTransformerEnd"
                                 /\ EndMatches(file.elems[i])})
            rows == q3.rows
        IN  /\ Len(rows) = Len(ends)
            /\ \E f \in Bijections(Len(rows)) :
                   \A i \in 1..Len(rows) : RowShows(rows[i], file.elems[ends[f[i]]])
            /\ \A i, j \in 1..Len(rows) : i < j => rows[i].end <= rows[j].end
            /\ \A i \in 1..Len(rows) : (rows[i].side = "YG") <=> (rows[i].u > 100)

(***************************************************************************)
(* The validation pass (analyze_question_6) on documents of limits,        *)
(* injections, voltage levels and windings, some sharing an mRID.          *)
(***************************************************************************)
OperationalLimitType(mrid, name) ==
    Element("OperationalLimitType",
            Opt("IdentifiedObject.mRID", mrid) @@ Opt("IdentifiedObject.name", name),
            Empty)

OperationalLimitSet(mrid) ==
    Element("OperationalLimitSet", Opt("IdentifiedObject.mRID", mrid), Empty)

CurrentLimit(ls_ref, limit_type_ref, value) ==
    Element("CurrentLimit",
            Opt("CurrentLimit.normalValue", value),
            Opt("OperationalLimit.OperationalLimitSet", ls_ref)
                @@ Opt("OperationalLimit.OperationalLimitType", limit_type_ref))

BaseVoltage(mrid, nominal_v) ==
    Element("BaseVoltage",
            Opt("IdentifiedObject.mRID", mrid) @@ Opt("BaseVoltage.nominalVoltage", nominal_v),
            Empty)

VoltageLevel(mrid, name, base_v_ref) ==
    Element("VoltageLevel",
            Opt("IdentifiedObject.mRID", mrid) @@ Opt("IdentifiedObject.name", name),
            Opt("VoltageLevel.BaseVoltage", base_v_ref))

EquivalentInjection(mrid, name, r, x) ==
    Element("EquivalentInjection",
            Opt("IdentifiedObject.mRID", mrid) @@ Opt("IdentifiedObject.name", name)
                @@ Opt("EquivalentInjection.r", r) @@ Opt("EquivalentInjection.x", x),
            Empty)

Winding2(mrid, name) ==
    Element("PowerTransformerEnd",
            Opt("IdentifiedObject.mRID", mrid) @@ Opt("IdentifiedObject.name", name),
            Empty)

\* Every document of the family starts with a base voltage of 400, the two
\* limit types, one limit set and its PATL of 1000.
ReportFixed ==
    << BaseVoltage("bv-1", "400"),
       OperationalLimitType("lt-patl", "PATL"),
       OperationalLimitType("lt-tatl", "TATL"),
       OperationalLimitSet("ls-1"),
       CurrentLimit("#_ls-1", "#_lt-patl", "1000") >>

ReportChoices ==
    { CurrentLimit("#_ls-1", "#_lt-tatl", "900"),
      CurrentLimit("#_ls-1", "#_lt-tatl", "1000"),
      CurrentLimit("#_ls-1", "#_lt-tatl", "1100"),
      CurrentLimit("#_ls-1", "#_lt-tatl", "0"),
      CurrentLimit("#_ls-1", "#_lt-patl", "abc"),
      CurrentLimit("#_ls-1", "#_lt-missing", "900"),
      EquivalentInjection("bv-1", "inj-a", "0", "0"),
      EquivalentInjection("dup-1", "inj-b", "0", "0"),
      EquivalentInjection("inj-3", "inj-c", "0", "ohm"),
      VoltageLevel("dup-1", "402", "#_bv-1"),
      VoltageLevel("vl-2", "401", "#_bv-1"),
      Winding2("ls-1", "W1") }

TypoRaw == [CleanRaw EXCEPT !.lname = TRUE]

ReportDocs == {ReportFixed \o elems : elems \in SeqsUpTo(ReportChoices, MaxElems)}

InitReport ==
    \E elems \in ReportDocs, raw \in {CleanRaw, TypoRaw} :
        StartState([wellFormed |-> TRUE, elems |-> elems, raw |-> raw])

SpecReport == InitReport /\ [][Next]_vars

\* the mRID texts of the document
Mrids(tree) ==
    {get_element_text(tree[i], "IdentifiedObject.mRID") : i \in Positions(tree, HasMrid)}

\* the positions in a list of findings of the lines of a category about a subject
LinesAbout(findings, category, subject) ==
    {k \in 1..Len(findings) :
        findings[k].category = category /\ findings[k].subject = subject}

\* the references of the document to an identifier no element carries
DanglingRefs(tree) ==
    {<<i, tag>> \in (1..Len(tree)) \X {"OperationalLimit.OperationalLimitType",
                                       "OperationalLimit.OperationalLimitSet",
                                       "VoltageLevel.BaseVoltage"} :
        /\ tag \in DOMAIN tree[i].res
        /\ ResourceFacts[tree[i].res[tag]].body \notin Mrids(tree)}

\* C1: a failure inside one rule of the validation pass does not abort the
\* pass: all six rules are started, the summary is printed, and the failure
\* is reported as a RuleExecutionFailed finding.
C1_RuleFailureIsolated ==
    q6.ran =>
        /\ q6.started = 6
        /\ q6.summary
        /\ (Rule3Exc(file.elems) # NoExc \/ Rule5Exc(file.elems) # NoExc) =>
               \E k \in 1..Len(q6.report) :
                   q6.report[k].finding.category = "RuleExecutionFailed"

\* C2: when the validation pass completes, a limit set whose PATL and TATL
\* values both resolve has exactly one ILLOGICAL LIMIT error, citing both
\* values, if TATL < PATL, and none otherwise, zero values included.
C2_LimitOrdering ==
    q6.summary =>
        \A i \in Positions(file.elems, IsLimitSet) :
            LET acc   == LimitsOf(file.elems, i)
                cited == {k \in 1..Len(q6.errors) :
                            /\ q6.errors[k].category = "ILLOGICAL LIMIT"
                            /\ q6.errors[k].at = i
                            /\ q6.errors[k].tatl = acc.tatl_value
                            /\ q6.errors[k].patl = acc.patl_value}
            IN  (~acc.patl_none /\ ~acc.tatl_none) =>
                    Cardinality(cited) = IF acc.tatl_value < acc.patl_value THEN 1 ELSE 0

C5_DanglingReported ==
    q6.summary =>
        \A d \in DanglingRefs(file.elems) :
            \E k \in 1..Len(q6.warnings) :
                /\ q6.warnings[k].category = "DanglingReference"
                /\ q6.warnings[k].at = d[1]

\* C7: in the report, no finding of an earlier rule comes after a finding of
\* a later rule, whatever the severities.
C7_RuleOrder ==
    q6.summary =>
        \A i, j \in 1..Len(q6.report) :
            i < j => q6.report[i].finding.rule <= q6.report[j].finding.rule

\* C7, amended: the report lists every error before every warning; within
\* one severity the findings are in rule order and, within one rule, in the
\* order of the document positions at which they were discovered.
C7_SeverityThenRuleOrder ==
    q6.ran =>
        /\ q6.summary => Len(q6.report) = Len(q6.errors) + Len(q6.warnings)
        /\ \A i, j \in 1..Len(q6.report) :
               i < j =>
                   LET a == q6.report[i]
                       b == q6.report[j]
                   IN  /\ ~(a.severity = "warning" /\ b.severity = "error")
                       /\ a.severity = b.severity =>
                              /\ a.finding.rule <= b.finding.rule
                              /\ a.finding.rule = b.finding.rule =>
                                     a.finding.at <= b.finding.at
        /\ \A i \in 1..Len(q6.report) :
               /\ q6.report[i].finding.rule \in {1, 2, 3} => q6.report[i].severity = "error"
               /\ q6.report[i].finding.rule \in {4, 5} => q6.report[i].severity = "warning"

\* C7 witness: a report in which an error of rule 6 precedes a warning of
\* rule 5, and in which rule 5 made two findings.
C7_Witness ==
    /\ q6.summary
    /\ \E i, j \in 1..Len(q6.report) :
           /\ i < j
           /\ q6.report[i].finding.rule = 6 /\ q6.report[i].severity = "error"
           /\ q6.report[j].finding.rule = 5
    /\ \E i, j \in 1..Len(q6.report) :
           /\ i < j
           /\ q6.report[i].finding.rule = 5 /\ q6.report[j].finding.rule = 5
           /\ q6.report[i].finding.at < q6.report[j].finding.at

(***************************************************************************)
(* Slack detection (analyze_question_5) on documents of generating units.  *)
(***************************************************************************)
GeneratingUnit(mrid, name, max_p, control_source) ==
    Element("GeneratingUnit",
            Opt("IdentifiedObject.mRID", mrid) @@ Opt("IdentifiedObject.name", name)
                @@ Opt("GeneratingUnit.maxOperatingP", max_p),
            Opt("GeneratingUnit.genControlSource", control_source))

UnitChoices ==
    {GeneratingUnit("gu-1", "G-A", max_p, control_source) :
        max_p \in {"100", "400", None},
        control_source \in {"#GeneratorControlSource.onAGC", "#GeneratorControlSource.offAGC",
                            "#GeneratorControlSource.Slack", None}}
    \cup
    {GeneratingUnit("gu-2", "G-B", "400", "#GeneratorControlSource.offAGC"),
     GeneratingUnit("gu-2", "G-B", "100", "#GeneratorControlSource.plantControl"),
     GeneratingUnit("gu-2", None, None, "#GeneratorControlSource.onAGC"),
     GeneratingUnit("gu-2", "G-B", "MW", "#GeneratorControlSource.offAGC")}

SlackDocs == SeqsUpTo(UnitChoices, MaxUnits)

InitSlack ==
    \E elems \in SlackDocs :
        StartState([wellFormed |-> TRUE, elems |-> elems, raw |-> CleanRaw])

SpecSlack == InitSlack /\ [][Next]_vars

\* the generating units of the document whose control source names automatic
\* generation control (or slack) participation
IsUnit(element) == element.type = "GeneratingUnit"

Participates(gen_unit) ==
    /\ "GeneratingUnit.genControlSource" \in DOMAIN gen_unit.res
    /\ gen_unit.res["GeneratingUnit.genControlSource"]
           \in {"#GeneratorControlSource.onAGC", "#GeneratorControlSource.Slack"}

MaxPOf(gen_unit) ==
    IF /\ "GeneratingUnit.maxOperatingP" \in DOMAIN gen_unit.text
       /\ gen_unit.text["GeneratingUnit.maxOperatingP"] \in DOMAIN FloatOf
    THEN FloatOf[gen_unit.text["GeneratingUnit.maxOperatingP"]]
    ELSE 0

SlackVerdict(units) ==
    /\ Len(q5.lines) = Len(units)
    /\ \A i \in 1..Len(units) : q5.lines[i].slack <=> Participates(units[i])
    /\ q5.warning <=> (\A i \in 1..Len(units) : ~Participates(units[i]))
    /\ q5.recommended <=> (units # <<>> /\ \A i \in 1..Len(units) : ~Participates(units[i]))
    /\ q5.recommended => \A i \in 1..Len(units) : MaxPOf(units[i]) <= q5.largest.max_p

\* C10: once slack detection has run, it has flagged exactly the generating
\* units whose control source indicates participation; the "no explicit
\* slack" warning and (where there is a unit) the recommendation are emitted
\* exactly when none is flagged; the recommended unit's maxOperatingP is at
\* least that of every other unit.
C10_SlackDetection == q5.ran => SlackVerdict(findall(file.elems, "GeneratingUnit"))

\* the same statement for the runs in which the detection completes
SlackDetectionWhenComplete ==
    (q5.ran /\ q5.exc = NoExc) => SlackVerdict(findall(file.elems, "GeneratingUnit"))

(***************************************************************************)
(* Loading: files that are well-formed XML and files that are not.  The    *)
(* text of a file that is not well-formed may lack the closing tag of the  *)
(* model header.                                                           *)
(***************************************************************************)
UnclosedRaw == RawText("unterminated", FALSE, FALSE)

LoadDocs == ReportDocs \cup SlackDocs

InitLoad ==
    \E wellFormed \in BOOLEAN, elems \in LoadDocs, raw \in {CleanRaw, UnclosedRaw} :
        /\ raw.header = "unterminated" => ~wellFormed
        /\ StartState([wellFormed |-> wellFormed, elems |-> elems, raw |-> raw])

SpecLoad == InitLoad /\ [][Next]_vars

\* C4: when the file is not well-formed XML, loading yields no tree (root is
\* None), the error is printed, and main ends without running any of the
\* six analyses.
C4_ParseErrorAborts ==
    (~file.wellFormed /\ pc # "parse") =>
        /\ root = NoRoot
        /\ console = <<"Error">>
        /\ pc = "done"
        /\ ~q1.ran /\ ~q2.ran /\ ~q3.ran /\ ~q4.ran /\ ~q5.ran /\ ~q6.ran

\* C4 witness: main has ended on a file that is not well-formed and that
\* holds elements the analyses would have reported on.
C4_Witness ==
    /\ ~file.wellFormed
    /\ pc = "done"
    /\ file.elems # <<>>
    /\ ~file.raw.fullModelClose

(***************************************************************************)
(* The capacity summary (analyze_question_1) on documents of generating    *)
(* units, some sharing an mRID or lacking one, followed by synchronous     *)
(* machines.                                                               *)
(***************************************************************************)
SynchronousMachine(name, gen_unit_ref, pf, rated_s, reg_control_ref) ==
    Element("SynchronousMachine",
            Opt("IdentifiedObject.mRID", "sm-1") @@ Opt("IdentifiedObject.name", name)
                @@ Opt("RotatingMachine.ratedPowerFactor", pf)
                @@ Opt("RotatingMachine.ratedS", rated_s),
            Opt("RotatingMachine.GeneratingUnit", gen_unit_ref)
                @@ Opt("RegulatingCondEq.RegulatingControl", reg_control_ref))

CapacityUnits ==
    {GeneratingUnit(mrid, "G-A", max_p, "#GeneratorControlSource.offAGC") :
        mrid \in {"gu-1", "gu-2", None}, max_p \in {"100", "400", None}}
    \cup
    {GeneratingUnit("gu-2", None, "100", "#GeneratorControlSource.offAGC"),
     GeneratingUnit("gu-2", "G-B", "MW", "#GeneratorControlSource.offAGC")}

MachineTails ==
    {<<>>,
     <<SynchronousMachine("NL-G2", "#_gu-1", "1", "100", None)>>,
     <<SynchronousMachine("NL-G2", "#_gu-1", None, None, None)>>,
     <<SynchronousMachine("NL-G2", "#_gu-missing", "1", "100", None)>>,
     <<SynchronousMachine("NL-G2", "#_gu-1", "abc", "100", None)>>}

CapacityDocs ==
    {units \o machines : units \in SeqsUpTo(CapacityUnits, MaxUnits),
                         machines \in MachineTails}

InitCapacity ==
    \E elems \in CapacityDocs :
        StartState([wellFormed |-> TRUE, elems |-> elems, raw |-> CleanRaw])

SpecCapacity == InitCapacity /\ [][Next]_vars

\* the positions of the generating units that have a maxOperatingP child
UnitsWithMaxP(tree) ==
    {i \in 1..Len(tree) :
        /\ tree[i].type = "GeneratingUnit"
        /\ "GeneratingUnit.maxOperatingP" \in DOMAIN tree[i].text}

RECURSIVE SumMaxP(_, _)
SumMaxP(tree, S) ==
    IF S = {} THEN 0
    ELSE LET i == CHOOSE j \in S : TRUE
         IN  FloatOf[tree[i].text["GeneratingUnit.maxOperatingP"]]
             + SumMaxP(tree, S \ {i})

\* C11: the total generation capacity the capacity summary prints is the sum
\* of maxOperatingP over the generating units of the document that have the
\* field; the units without it add nothing.
C11_TotalCapacity ==
    q1.printed => q1.total = SumMaxP(file.elems, UnitsWithMaxP(file.elems))

\* C11 witness: the total 500 has been printed for a document with two
\* units of 100 and 400 under one mRID.
C11_Witness ==
    /\ q1.printed
    /\ q1.total = 500
    /\ \E i, j \in UnitsWithMaxP(file.elems) :
           /\ i # j
           /\ get_element_text(file.elems[i], "IdentifiedObject.mRID")
                  = get_element_text(file.elems[j], "IdentifiedObject.mRID")

RECURSIVE SumRows(_)
SumRows(rows) ==
    IF rows = <<>> THEN 0
    ELSE SumRows(SubSeq(rows, 1, Len(rows) - 1)) + rows[Len(rows)].max_p

\* C19: whenever the capacity summary has printed its whole table, the total
\* it printed is the sum of the Max P column of the table, also when
\* generating units share an mRID or have none.
C19_TotalMatchesTable ==
    (q1.printed /\ q1.exc = NoExc) => q1.total = SumRows(q1.rows)

(***************************************************************************)
(* The limit summary (analyze_question_4) on documents of a line, its      *)
(* terminals, their limit sets, current limits and limit types.            *)
(***************************************************************************)
ACLineSegment(mrid) ==
    Element("ACLineSegment",
            Opt("IdentifiedObject.mRID", mrid) @@ Opt("IdentifiedObject.name", "NL-Line_5"),
            Empty)

Terminal(mrid, equip_ref, seq_num) ==
    Element("Terminal",
            Opt("IdentifiedObject.mRID", mrid) @@ Opt("ACDCTerminal.sequenceNumber", seq_num),
            Opt("Terminal.ConductingEquipment", equip_ref))

LimitSetAt(mrid, term_ref) ==
    Element("OperationalLimitSet",
            Opt("IdentifiedObject.mRID", mrid),
            Opt("OperationalLimitSet.Terminal", term_ref))

LimitTypeOf(mrid, name, is_infinite, duration) ==
    Element("OperationalLimitType",
            Opt("IdentifiedObject.mRID", mrid) @@ Opt("IdentifiedObject.name", name)
                @@ Opt("OperationalLimitType.isInfiniteDuration", is_infinite)
                @@ Opt("OperationalLimitType.acceptableDuration", duration),
            Empty)

LimitFixed ==
    << Terminal("term-1", "#_e8acf6b6-99cb-45ad-b8dc-16c7866a4ddc", "1"),
       LimitSetAt("ls-1", "#_term-1"),
       CurrentLimit("#_ls-1", "#_lt-patl", "1000") >>

LimitChoices ==
    {LimitTypeOf("lt-patl", "PATL", is_infinite, duration) :
        is_infinite \in {"true", "True", "false", None}, duration \in {"600", None}}
    \cup
    {LimitTypeOf("lt-tatl", "TATL", "false", "600"),
     LimitTypeOf("lt-patl", None, "true", None),
     CurrentLimit("#_ls-1", "#_lt-tatl", "1100"),
     CurrentLimit("#_ls-1", "#_lt-missing", "900"),
     CurrentLimit("#_ls-2", "#_lt-patl", "900"),
     CurrentLimit("#_ls-1", "#_lt-patl", None),
     Terminal("term-2", "#_e8acf6b6-99cb-45ad-b8dc-16c7866a4ddc", "2"),
     Terminal("term-2", "#_line-other", "2"),
     LimitSetAt("ls-2", "#_term-2"),
     LimitSetAt("ls-2", "#_term-1")}

LimitDocs ==
    {<<line>> \o LimitFixed \o rest :
        line \in {ACLineSegment(line_id), ACLineSegment("line-other")},
        rest \in SeqsUpTo(LimitChoices, MaxElems)}

InitLimits ==
    \E elems \in LimitDocs :
        StartState([wellFormed |-> TRUE, elems |-> elems, raw |-> CleanRaw])

SpecLimits == InitLimits /\ [][Next]_vars

\* the element of the type whose mRID the reference of the field names
\* (the first, in document order), 0 if the field or the target is absent
Target(tree, element, field, type) ==
    IF field \notin DOMAIN element.res THEN 0
    ELSE LET hits == {i \in 1..Len(tree) :
                        /\ tree[i].type = type
                        /\ "IdentifiedObject.mRID" \in DOMAIN tree[i].text
                        /\ tree[i].text["IdentifiedObject.mRID"]
                               = ResourceFacts[element.res[field]].body}
         IN  IF hits = {} THEN 0 ELSE CHOOSE i \in hits : \A j \in hits : i <= j

\* the current limits reachable from the line: <<terminal, limit set,
\* current limit, limit type>> as positions in the document
Hops(tree) ==
    {h \in (1..Len(tree)) \X (1..Len(tree)) \X (1..Len(tree)) \X (1..Len(tree)) :
        /\ tree[h[1]].type = "Terminal"
        /\ Target(tree, tree[h[1]], "Terminal.ConductingEquipment", "ACLineSegment") # 0
        /\ get_element_text(tree[Target(tree, tree[h[1]], "Terminal.ConductingEquipment",
                                        "ACLineSegment")],
                            "IdentifiedObject.mRID") = line_id
        /\ tree[h[2]].type = "OperationalLimitSet"
        /\ Target(tree, tree[h[2]], "OperationalLimitSet.Terminal", "Terminal") = h[1]
        /\ tree[h[3]].type = "CurrentLimit"
        /\ Target(tree, tree[h[3]], "OperationalLimit.OperationalLimitSet",
                  "OperationalLimitSet") = h[2]
        /\ Target(tree, tree[h[3]], "OperationalLimit.OperationalLimitType",
                  "OperationalLimitType") = h[4]}

\* text.lower() == "true" on the texts of the infinite-duration flag
IsTrueText(text) == text \in {"true", "True"}

\* the row of one reachable limit, Flag deciding what counts as true
RowOfHop(tree, h, row, Flag(_)) ==
    /\ row.port = get_element_text(tree[h[1]], "ACDCTerminal.sequenceNumber")
    /\ row.type = get_element_text(tree[h[4]], "IdentifiedObject.name")
    /\ row.value = get_element_text(tree[h[3]], "CurrentLimit.normalValue")
    /\ (row.duration.kind = "Permanent")
           <=> Flag(get_element_text(tree[h[4]], "OperationalLimitType.isInfiniteDuration"))
    /\ row.duration.kind # "Permanent" =>
           row.duration.seconds
               = get_element_text(tree[h[4]], "OperationalLimitType.acceptableDuration")

LimitRows(Flag(_)) ==
    LET hops == Hops(file.elems)
    IN  /\ Len(q4.rows) = Cardinality(hops)
        /\ \A h \in hops :
               \E k \in 1..Len(q4.rows) : RowOfHop(file.elems, h, q4.rows[k], Flag)

\* C12: once the limit summary has run for a line of the document, it has
\* one row for every current limit reachable over the four hops, a row being
\* permanent exactly when the infinite-duration flag of the limit type is
\* "true" in any letter case, and otherwise showing the declared duration.
C12_LimitSummary == (q4.ran /\ q4.found) => LimitRows(IsTrueText)

\* the rows as the code prints them, where it prints them all: the flag is
\* compared with "true" as written
LimitRowsWhenListed ==
    (q4.ran /\ q4.found /\ q4.exc = NoExc) => LimitRows(LAMBDA text : text = "true")

(***************************************************************************)
(* The regulation-mode lookup (analyze_question_2) on documents of         *)
(* synchronous machines and regulating controls.                           *)
(***************************************************************************)
RegulatingControl(mrid, mode_resource) ==
    Element("RegulatingControl",
            Opt("IdentifiedObject.mRID", mrid),
            Opt("RegulatingControl.mode", mode_resource))

RegulationChoices ==
    {SynchronousMachine(name, None, "1", "100", reg_control_ref) :
        name \in {generator_name, "NL-G2"},
        reg_control_ref \in {"#_rc-1", "#_rc-missing", None}}
    \cup
    {RegulatingControl("rc-1", mode_resource) :
        mode_resource \in {"#RegulatingControlModeKind.voltage",
                           "#RegulatingControlModeKind.reactivePower",
                           "http://iec.ch/TC57/CIM100#RegulatingControlModeKind.voltage",
                           None}}
    \cup
    {RegulatingControl("rc-2", "#RegulatingControlModeKind.reactivePower")}

RegulationDocs == SeqsUpTo(RegulationChoices, MaxElems)

InitRegulation ==
    \E elems \in RegulationDocs :
        StartState([wellFormed |-> TRUE, elems |-> elems, raw |-> CleanRaw])

SpecRegulation == InitRegulation /\ [][Next]_vars

\* the member of an enumeration reference, without the enumeration kind
MemberName ==
    ("#RegulatingControlModeKind.voltage" :> "voltage") @@
    ("#RegulatingControlModeKind.reactivePower" :> "reactivePower") @@
    ("http://iec.ch/TC57/CIM100#RegulatingControlModeKind.voltage" :> "voltage")

\* the first machine of the name, and the control its reference names
NamedMachine(tree) ==
    LET hits == {i \in 1..Len(tree) :
                    /\ tree[i].type = "SynchronousMachine"
                    /\ get_element_text(tree[i], "IdentifiedObject.name") = generator_name}
    IN  IF hits = {} THEN 0 ELSE CHOOSE i \in hits : \A j \in hits : i <= j

ControlOf(tree) ==
    IF NamedMachine(tree) = 0 THEN 0
    ELSE Target(tree, tree[NamedMachine(tree)], "RegulatingCondEq.RegulatingControl",
                "RegulatingControl")

\* C13: once the regulation-mode lookup has run on a document in which the
\* named generator's regulating-control reference leads to a control with a
\* mode reference, it has returned the member of that enumeration reference
\* alone, without the enumeration kind.
C13_RegulationMode ==
    (/\ q2.ran
     /\ ControlOf(file.elems) # 0
     /\ "RegulatingControl.mode" \in DOMAIN file.elems[ControlOf(file.elems)].res) =>
        /\ q2.resolved
        /\ q2.mode = MemberName[file.elems[ControlOf(file.elems)].res["RegulatingControl.mode"]]

\* the lookup as the code performs it: the text after the last '#' of the
\* mode reference of the control the reference leads to, "Unknown" without
\* a mode reference, nothing when there is no such machine or control
RegulationModeAsPrinted ==
    q2.ran =>
        /\ q2.exc = NoExc
        /\ q2.found <=> NamedMachine(file.elems) # 0
        /\ q2.resolved <=> ControlOf(file.elems) # 0
        /\ q2.resolved =>
               LET res == file.elems[ControlOf(file.elems)].res
               IN  q2.mode = IF "RegulatingControl.mode" \in DOMAIN res
                             THEN ResourceFacts[res["RegulatingControl.mode"]].body
                             ELSE "Unknown"

(***************************************************************************)
(* The voltage rule of the validation pass (rule 4) on documents of        *)
(* voltage levels around a base voltage of 400, behind a limit set whose   *)
(* limits rule 3 reads first.                                              *)
(***************************************************************************)
VoltageFixed ==
    << BaseVoltage("bv-1", "400"),
       OperationalLimitType("lt-patl", "PATL"),
       OperationalLimitSet("ls-1") >>

VoltageChoices ==
    {VoltageLevel("vl-1", name, "#_bv-1") :
        name \in {"398", "399", "400", "401", "402", "HighVoltage", None}}
    \cup
    {VoltageLevel("vl-2", "402", "#_bv-missing"),
     VoltageLevel("vl-2", "402", None),
     BaseVoltage("bv-2", None),
     BaseVoltage("bv-2", "kV"),
     CurrentLimit("#_ls-1", "#_lt-patl", "1000"),
     CurrentLimit("#_ls-1", "#_lt-patl", "abc"),
     EquivalentInjection("inj-3", "inj-c", "0", "ohm")}

VoltageDocs == {VoltageFixed \o elems : elems \in SeqsUpTo(VoltageChoices, MaxElems)}

InitVoltage ==
    \E elems \in VoltageDocs :
        StartState([wellFormed |-> TRUE, elems |-> elems, raw |-> CleanRaw])

SpecVoltage == InitVoltage /\ [][Next]_vars

\* the voltage levels whose name is a number and whose base-voltage
\* reference leads to a base voltage with a numeric nominal value
Comparable(tree) ==
    {i \in 1..Len(tree) :
        /\ tree[i].type = "VoltageLevel"
        /\ "IdentifiedObject.name" \in DOMAIN tree[i].text
        /\ tree[i].text["IdentifiedObject.name"] \in DOMAIN FloatOf
        /\ LET b == Target(tree, tree[i], "VoltageLevel.BaseVoltage", "BaseVoltage")
           IN  /\ b # 0
               /\ "BaseVoltage.nominalVoltage" \in DOMAIN tree[b].text
               /\ tree[b].text["BaseVoltage.nominalVoltage"] \in DOMAIN FloatOf}

Difference(tree, i) ==
    LET b == Target(tree, tree[i], "VoltageLevel.BaseVoltage", "BaseVoltage")
        d == FloatOf[tree[i].text["IdentifiedObject.name"]]
             - FloatOf[tree[b].text["BaseVoltage.nominalVoltage"]]
    IN  IF d < 0 THEN 0 - d ELSE d

MismatchesAt(findings, i) ==
    {k \in 1..Len(findings) :
        findings[k].category = "VOLTAGE MISMATCH" /\ findings[k].at = i}

VoltageVerdict ==
    \A i \in Comparable(file.elems) :
        Cardinality(MismatchesAt(q6.warnings, i))
            = IF Difference(file.elems, i) > 1 THEN 1 ELSE 0

\* C14: once the validation pass has run, every voltage level with a numeric
\* name and a resolving base voltage has a VOLTAGE MISMATCH warning exactly
\* when the name and the nominal value differ by more than 1.0.
C14_VoltageTolerance == q6.ran => VoltageVerdict

\* the same statement for the runs in which the pass gets as far as rule 4
VoltageToleranceWhenReached == (q6.ran /\ q6.started >= 5) => VoltageVerdict

(***************************************************************************)
(* The structure rule of the validation pass (rule 6) on well-formed files *)
(* whose text has the model header in each of its well-formed shapes.      *)
(***************************************************************************)
UnreadableRaw == [CleanRaw EXCEPT !.readable = FALSE]

StructureRaws ==
    {RawText(header, lname, incompleteMrid) :
        header \in {"none", "paired", "selfclosed"},
        lname \in BOOLEAN, incompleteMrid \in BOOLEAN}
    \cup {UnreadableRaw}

StructureChoices ==
    {CurrentLimit("#_ls-1", "#_lt-tatl", "900"),
     CurrentLimit("#_ls-1", "#_lt-patl", "abc"),
     EquivalentInjection("inj-3", "inj-c", "0", "0")}

StructureDocs == {ReportFixed \o elems : elems \in SeqsUpTo(StructureChoices, MaxElems)}

InitStructure ==
    \E elems \in StructureDocs, raw \in StructureRaws :
        StartState([wellFormed |-> TRUE, elems |-> elems, raw |-> raw])

SpecStructure == InitStructure /\ [][Next]_vars

StructuralErrors == {k \in 1..Len(q6.errors) : q6.errors[k].rule = 6}

\* C15: once the validation pass has run on a loaded file, it holds a
\* structural error exactly when the text has an unterminated model header
\* or the misspelled tag; a terminated header, self-closed included, without
\* the misspelled tag gives none.
C15_StructuralTags ==
    (q6.ran /\ file.raw.readable) =>
        (StructuralErrors # {} <=> (file.raw.header = "unterminated" \/ file.raw.lname))

\* the same statement for the summaries printed of files whose header has an
\* end tag or is absent and that lack the literal of the truncated mRID
StructuralTagsWhenPaired ==
    (/\ q6.summary /\ file.raw.readable
     /\ file.raw.header \in {"none", "paired"} /\ ~file.raw.incompleteMrid) =>
        (StructuralErrors # {} <=> file.raw.lname)

Point(from, values) == Item(TRUE, from, TRUE, values)

Bodies ==
    { Body(FALSE, FALSE, <<>>),
      Body(TRUE, FALSE, <<>>),
      Body(TRUE, TRUE, <<>>),
      Body(TRUE, TRUE, <<Point(1, <<1>>), Item(TRUE, 2, FALSE, <<>>)>>),
      Body(TRUE, TRUE, <<Point(1, <<0>>), Point(2, <<0, 0>>)>>),
      Body(TRUE, TRUE, <<Point(1, <<>>)>>),
      Body(TRUE, TRUE, <<Point(2, <<3>>), Point(1, <<-1, -1>>)>>),
      Body(TRUE, TRUE, <<Item(FALSE, 1, TRUE, <<5>>), Point(1, <<1>>)>>),
      Body(TRUE, TRUE, <<Point(1, <<4>>)>>),
      Body(TRUE, TRUE, <<Point(2, <<1>>)>>) }

Responses ==
    { Response("ConnectionError", 200, TRUE, TRUE, NoBody),
      Response("Timeout", 200, TRUE, TRUE, NoBody),
      Response(NoExc, 404, FALSE, FALSE, NoBody),
      Response(NoExc, 500, TRUE, TRUE, NoBody),
      Response(NoExc, 200, FALSE, FALSE, NoBody),
      Response(NoExc, 200, TRUE, FALSE, NoBody) }
    \cup { Response(NoExc, 200, TRUE, TRUE, body) : body \in Bodies }

InitPipeline ==
    /\ file = [wellFormed |-> TRUE, elems |-> <<>>, raw |-> CleanRaw]
    /\ root = NoRoot
    /\ pc = "parse"
    /\ console = <<>>
    /\ q1 = Q1NotRun /\ q2 = Q2NotRun /\ q3 = Q3NotRun
    /\ q4 = Q4NotRun /\ q5 = Q5NotRun /\ q6 = Q6NotRun
    /\ \E afrr \in Responses, imbalance \in Responses :
          task1 = [Task1NotRun EXCEPT !.pc = "fetch_afrr",
                                      !.afrr_response = afrr,
                                      !.imbalance_response = imbalance]

SpecPipeline == InitPipeline /\ [][NextPipeline]_vars

\* what a response is by itself: the network or HTTP error it stands for,
\* and whether a series can be read from it
NetworkError(resp) ==
    IF resp.error # NoExc THEN resp.error
    ELSE IF resp.status >= 400 THEN "HTTPError"
    ELSE NoExc

Usable(resp) ==
    /\ NetworkError(resp) = NoExc
    /\ resp.json_type /\ resp.decodes
    /\ resp.body.has_data /\ resp.body.has_timeseries
    /\ resp.body.timeseries # <<>>
    /\ \A i \in 1..Len(resp.body.timeseries) : resp.body.timeseries[i].numeric

\* C17: a network or HTTP error of either fetch leaves main as the same
\* exception, and metrics.csv, timeseries.png, ratio.png and assessment.txt
\* exist only when both series were fetched and parsed: after a failed fetch
\* or parse none of them is written.
C17_LinearPipeline ==
    /\ task1.outputs # {} => (Usable(task1.afrr_response) /\ Usable(task1.imbalance_response))
    /\ (task1.pc = "raised" /\ NetworkError(task1.afrr_response) # NoExc)
          => task1.exc = NetworkError(task1.afrr_response)
    /\ (task1.pc = "raised" /\ Usable(task1.afrr_response)
            /\ NetworkError(task1.imbalance_response) # NoExc)
          => task1.exc = NetworkError(task1.imbalance_response)
    /\ task1.pc = "complete"
          => task1.outputs = {"metrics.csv", "timeseries.png", "ratio.png", "assessment.txt"}

C17_Witness ==
    /\ task1.pc = "raised"
    /\ Usable(task1.afrr_response)
    /\ task1.afrr_df # <<>>
    /\ task1.imbalance_response.error = "Timeout"
    /\ task1.exc = "Timeout"
    /\ task1.outputs = {}

\* the report was attempted on a table whose imbalance values are all zero
ZeroImbalance(metrics_df) ==
    /\ metrics_df # <<>>
    /\ \A i \in 1..Len(metrics_df) :
          ~metrics_df[i].imbalance.nan /\ metrics_df[i].imbalance.v = 0

ReportAttempted ==
    /\ "assessment.txt" \in task1.outputs
    /\ task1.pc \in {"complete", "raised"}

InReport(line) == \E i \in 1..Len(task1.assessment) : task1.assessment[i] = line

\* C18: for every metrics table whose imbalance values are all zero,
\* generate_report completes without raising and the report contains the
\* line "Unable to calculate ratio due to zero imbalance values."
C18_ZeroImbalanceReport ==
    (ReportAttempted /\ ZeroImbalance(task1.metrics_df))
       => (task1.exc = NoExc /\ InReport(UnableLine))

\* what generate_report does instead: with no imbalance at all it raises
\* after the totals, and the line is written only when the aFRR side is zero
ZeroImbalanceAsWritten ==
    ReportAttempted =>
       /\ (column_sum(imbalance_abs(task1.metrics_df)) = 0)
             <=> (task1.exc = "TypeError")
       /\ task1.exc = "TypeError" =>
             (~InReport(UnableLine) /\ ~InReport("ASSESSMENT") /\ task1.pc = "raised")
       /\ InReport(UnableLine) <=>
             (task1.exc = NoExc /\ column_sum(afrr_abs(task1.metrics_df)) = 0)
====
